---- MODULE Spec2Model ----
(***************************************************************************)
(* SFO Stratus prediction tool: the forecast model of src/src/App.tsx, the *)
(* METAR remarks decoder, the observation window reduction and the         *)
(* three-station pressure aggregation of src/src/utils and src/unnamed.    *)
(*                                                                         *)
(* Numbers.  The program computes in IEEE doubles; the model computes in   *)
(* integers of a fixed unit:                                               *)
(*   temperatures, dewpoints, SI      tenths of a degree F                 *)
(*   pressures, gradients, trends     tenths of a millibar                 *)
(*   hours (onset, end, delays)       thousandths of an hour               *)
(*   probability                      hundredths of a percent              *)
(*   multiplicative factors           thousandths                          *)
(* Products and powers are truncated to the unit.                          *)
(***************************************************************************)
EXTENDS Integers, Sequences, FiniteSets, TLC

VARIABLES
    \* ---- App (src/src/App.tsx, first component) : React state
    maxTemp, maxDewpoint, onPressure, offPressure, baseInversion, wind2k,
    selectedTrigger, synopticPatterns, burnOff, month, afternoonDewpoint,
    \* what the last render computed and what the results panel did with it
    prediction, panel,
    \* number of input events handled so far (bounds the exploration)
    nEdits,
    \* ---- remarks decoder (src/src/utils/nwsApi.ts, src/unnamed/part_001)
    \* the groups a station encoded, the raw text of its report, and what each
    \* decoding function returned for that text
    report, rawMetar, decoded,
    \* ---- KSFO temperature window (src/src/utils/nwsApi.ts, two revisions)
    \* the response of the observations request and what each revision of
    \* fetchKSFOTemperatureData returned for it
    ksfoResponse, temperatureData,
    \* ---- three-station pressure fetch (nwsApi.ts fetchAllStationPressureData,
    \* part_001 fetchPressureData): which of the two the build imports, the
    \* response each station's request has received, and how the call ended
    pressureRevision, stationResponse, pressureCall,
    \* ---- pressure gradients and 24-hour trends (pressureApi.ts
    \* fetchPressureGradientData, part_000 fetchPressureGradients): which of the
    \* two the build imports, the time of the call, what the service holds for
    \* each station, and what the call returned
    gradientRevision, clock, stationHistory, gradientData,
    \* ---- the manual-entry screen (part_004 App): the text of its five input
    \* fields with the two status lines, and what the last render showed
    entry, shown,
    \* ---- one evaluation of a function of the forecast model (App.tsx
    \* getSITiming, the factor expressions of getFinalPrediction,
    \* getSynopticPatternEffects): the function with its arguments, and what it
    \* returned
    call, returned,
    \* ---- temperature refreshes (App.tsx loadTemperatureData, part_003
    \* fetchData): which of the two components is mounted, the calls started so
    \* far in the order they started (each with what its request returned, the
    \* value pending while it awaits), and the component's state the calls write
    component, fetches, screen

appInputs == <<maxTemp, maxDewpoint, onPressure, offPressure, baseInversion,
               wind2k, selectedTrigger, synopticPatterns, burnOff, month,
               afternoonDewpoint>>
appVars == <<appInputs, prediction, panel, nEdits>>
decodeVars == <<report, rawMetar, decoded>>
tempVars == <<ksfoResponse, temperatureData>>
stationVars == <<pressureRevision, stationResponse, pressureCall>>
gradientVars == <<gradientRevision, clock, stationHistory, gradientData>>

entryVars == <<entry, shown>>
callVars == <<call, returned>>
refreshVars == <<component, fetches, screen>>

vars == <<appVars, decodeVars, tempVars, stationVars, gradientVars, entryVars,
          callVars, refreshVars>>

(***************************************************************************)
(* Units                                                                   *)
(***************************************************************************)
HourUnit == 1000
FactorUnit == 1000
ProbUnit == 100

Max(a, b) == IF a >= b THEN a ELSE b
Min(a, b) == IF a <= b THEN a ELSE b
Abs(a) == IF a < 0 THEN -a ELSE a

\* Math.round(n / d) for d > 0: floor(n/d + 1/2), ties towards +Infinity
RoundDiv(n, d) == (2 * n + d) \div (2 * d)

\* F applied to the value of v (v is evaluated once)
ApplyTo(v, F(_)) == CHOOSE r \in {F(x) : x \in {v}} : TRUE

\* floor(sqrt(n)) for 0 <= n < 46300 * 46300: the hundreds of the root, then the units
SqrtOf(n) ==
    LET h == CHOOSE c \in 0..462 : (c * 100) * (c * 100) <= n
                                   /\ ((c + 1) * 100) * ((c + 1) * 100) > n
    IN  CHOOSE r \in (h * 100)..(h * 100 + 99) : r * r <= n /\ (r + 1) * (r + 1) > n
ISqrt(n) == ApplyTo(n, SqrtOf)

\* Math.pow(x, 1.5) and Math.pow(x, 0.5) on thousandths
Pow15Of(x) == (x * ISqrt(x * FactorUnit)) \div FactorUnit
Pow15(x) == ApplyTo(x, Pow15Of)
Pow05(x) == ISqrt(x * FactorUnit)

\* probability *= factor
TimesFactorOf(pf) ==
    (pf[1] \div FactorUnit) * pf[2] + ((pf[1] % FactorUnit) * pf[2]) \div FactorUnit
TimesFactor(p, f) == ApplyTo(<<p, f>>, TimesFactorOf)

(***************************************************************************)
(* Forecast model: src/src/App.tsx lines 223-516                           *)
(***************************************************************************)
calculateSI == maxTemp - maxDewpoint
calculateON == onPressure.sfo - onPressure.smf
calculateOFF == offPressure.acv - offPressure.sfo

\* rows of the timing table: start, end in hours, noCigProb in tenths of a percent
timingTable ==
    << [si |->  9, start |->  1, end |-> 21, noCigProb |->  59],
       [si |-> 10, start |->  1, end |-> 21, noCigProb |-> 111],
       [si |-> 11, start |->  3, end |-> 20, noCigProb |-> 107],
       [si |-> 12, start |->  3, end |-> 19, noCigProb |-> 114],
       [si |-> 13, start |->  6, end |-> 18, noCigProb |-> 206],
       [si |-> 14, start |->  7, end |-> 17, noCigProb |-> 215],
       [si |-> 15, start |->  8, end |-> 17, noCigProb |-> 244],
       [si |-> 16, start |->  9, end |-> 17, noCigProb |-> 208],
       [si |-> 17, start |->  9, end |-> 17, noCigProb |-> 200],
       [si |-> 18, start |->  9, end |-> 17, noCigProb |-> 216],
       [si |-> 19, start |-> 10, end |-> 17, noCigProb |-> 233],
       [si |-> 20, start |-> 10, end |-> 17, noCigProb |-> 444],
       [si |-> 21, start |-> 10, end |-> 17, noCigProb |-> 600],
       [si |-> 22, start |-> 10, end |-> 17, noCigProb |-> 750],
       [si |-> 23, start |-> 11, end |-> 17, noCigProb |-> 800],
       [si |-> 24, start |-> 13, end |-> 17, noCigProb |-> 700],
       [si |-> 25, start |-> 13, end |-> 17, noCigProb |-> 833] >>

\* Array.prototype.find: index of the first row whose key is k, 0 when none
RowWithKey(k) ==
    IF \E i \in 1..Len(timingTable) : timingTable[i].si = k
    THEN CHOOSE i \in 1..Len(timingTable) :
             /\ timingTable[i].si = k
             /\ \A j \in 1..(i - 1) : timingTable[j].si # k
    ELSE 0

\* si in tenths of a degree
getSITiming(si) ==
    IF si < 90 THEN timingTable[1]
    ELSE IF si > 250 THEN timingTable[Len(timingTable)]
    ELSE LET exact == RowWithKey(RoundDiv(si, 10))
             below == {i \in 1..Len(timingTable) : timingTable[i].si * 10 <= si}
             above == {i \in 1..Len(timingTable) : timingTable[i].si * 10 > si}
         IN  IF exact # 0 THEN timingTable[exact]
             ELSE IF below = {} THEN timingTable[1]
             ELSE IF above = {} THEN timingTable[Len(timingTable)]
             ELSE timingTable[CHOOSE i \in below : \A j \in below : j <= i]

\* Math.round(time * 2) / 2
roundToNearestHalfHour(time) == RoundDiv(2 * time, HourUnit) * (HourUnit \div 2)

\* thresholds in tenths of a millibar
monthlyThresholds(m) ==
    CASE m = "May"       -> [onMin |-> 35, offMax |-> -50]
      [] m = "June"      -> [onMin |-> 35, offMax |-> -55]
      [] m = "July"      -> [onMin |-> 35, offMax |-> -60]
      [] m = "August"    -> [onMin |-> 30, offMax |-> -60]
      [] m = "September" -> [onMin |-> 25, offMax |-> -60]
      [] OTHER           -> [onMin |-> 35, offMax |-> -60]

\* line 354: the thresholds of the selected month
getMonthlyThresholds == monthlyThresholds(month)

\* Math.round(hoursToScatter * 10) / 10, in tenths of an hour
calculateBurnOffTime(base, top) == RoundDiv(top - base, 20)

hasTrigger == selectedTrigger # ""

\* lines 297-347: probabilityMultiplier *= factor where the pattern applies (times
\* 1 elsewhere)
patternMultiplier(sp) ==
    LET m1 == TimesFactor(FactorUnit, IF sp.thermalLow THEN 1250 ELSE FactorUnit)
        m2 == TimesFactor(m1, IF sp.surfaceHigh
                              THEN (IF sp.thermalLow THEN 1150 ELSE 850)
                              ELSE FactorUnit)
        m3 == TimesFactor(m2, IF sp.upperRidge THEN 1200 ELSE FactorUnit)
        m4 == TimesFactor(m3, IF sp.upperTrough THEN 1300 ELSE FactorUnit)
        m5 == TimesFactor(m4, IF sp.cutoffLow THEN 1200 ELSE FactorUnit)
        m6 == TimesFactor(m5, IF sp.upperRidge /\ sp.thermalLow THEN 1100 ELSE FactorUnit)
    IN  TimesFactor(m6, IF sp.upperTrough /\ sp.thermalLow THEN 1100 ELSE FactorUnit)

\* lines 297-347: timingAdjustment, in thousandths of an hour
patternTimingAdjustment(sp) ==
    (IF sp.thermalLow THEN -1000 ELSE 0)
        + (IF sp.surfaceHigh /\ sp.thermalLow THEN -500 ELSE 0)
        + (IF sp.upperTrough THEN -1000 ELSE 0)
        + (IF sp.cutoffLow THEN -500 ELSE 0)

\* the effects without a line for a surface high that has no thermal low
patternEffectsOptimalOnly(sp) ==
    (IF sp.thermalLow THEN <<"Thermal low enhances onshore flow">> ELSE <<>>)
        \o (IF sp.surfaceHigh /\ sp.thermalLow
            THEN <<"Surface high offshore strengthens pressure gradient">> ELSE <<>>)
        \o (IF sp.upperRidge
            THEN <<"Upper ridge enhances subsidence and inversion strength">> ELSE <<>>)
        \o (IF sp.upperTrough
            THEN <<"Upper trough thickens marine layer and raises base inversion">>
            ELSE <<>>)
        \o (IF sp.cutoffLow THEN <<"Cutoff low enhances marine layer thickness">> ELSE <<>>)
        \o (IF sp.upperRidge /\ sp.thermalLow
            THEN <<"Upper ridge + thermal low: optimal marine layer pattern">> ELSE <<>>)
        \o (IF sp.upperTrough /\ sp.thermalLow
            THEN <<"Upper trough + thermal low: enhanced marine layer penetration">>
            ELSE <<>>)

\* lines 297-347: effects
patternEffects(sp) ==
    (IF sp.thermalLow THEN <<"Thermal low enhances onshore flow">> ELSE <<>>)
        \o (IF sp.surfaceHigh
            THEN (IF sp.thermalLow
                  THEN <<"Surface high offshore strengthens pressure gradient">>
                  ELSE <<"Surface high may suppress marine layer without thermal low">>)
            ELSE <<>>)
        \o (IF sp.upperRidge
            THEN <<"Upper ridge enhances subsidence and inversion strength">> ELSE <<>>)
        \o (IF sp.upperTrough
            THEN <<"Upper trough thickens marine layer and raises base inversion">>
            ELSE <<>>)
        \o (IF sp.cutoffLow THEN <<"Cutoff low enhances marine layer thickness">> ELSE <<>>)
        \o (IF sp.upperRidge /\ sp.thermalLow
            THEN <<"Upper ridge + thermal low: optimal marine layer pattern">> ELSE <<>>)
        \o (IF sp.upperTrough /\ sp.thermalLow
            THEN <<"Upper trough + thermal low: enhanced marine layer penetration">>
            ELSE <<>>)

getSynopticPatternEffects ==
    [ probabilityMultiplier |-> patternMultiplier(synopticPatterns),
      timingAdjustment |-> patternTimingAdjustment(synopticPatterns),
      effects |-> patternEffects(synopticPatterns) ]

\* lines 380-388; d = afternoonDewpoint in tenths, d < 450
dewpointFactor(d) ==
    IF d >= 420 THEN 300 + (700 * (d - 420)) \div 30
    ELSE Max(50, (300 * (d - 350) * (d - 350)) \div 4900)

\* lines 400-408; on < onMin + 0.5
onFactor(on, onMin) ==
    IF on >= onMin THEN 300 + (700 * (on - onMin)) \div 5
    ELSE Max(100, (300 * Pow15((Max(0, on) * FactorUnit) \div onMin)) \div FactorUnit)

\* lines 414-422; off > offMax - 0.5
offFactor(off, offMax) ==
    IF off <= offMax THEN 200 + (800 * (offMax - off)) \div 5
    ELSE Max(50, (200 * Pow15((Abs(offMax) * FactorUnit) \div Max(1, Abs(off)))) \div FactorUnit)

\* lines 447-455; bi < 1200
inversionFactor(bi) ==
    IF bi >= 1000 THEN 800 + (200 * (bi - 1000)) \div 200
    ELSE Max(400, (800 * Pow05(bi)) \div FactorUnit)

delayHours(bi) ==
    IF bi >= 1000 THEN (2 * (1200 - bi) * HourUnit) \div 200
    ELSE 2 * HourUnit + (2 * (1000 - bi) * HourUnit) \div 500

\* the early exit taken at 500 ft as well
preventsFormationInclusive(bi) == bi <= 500

\* line 367: base conditions that prevent formation
preventsFormation(bi) == bi < 500

\* the early-exit object of lines 368-376
earlyExit ==
    [ startTime |-> "No Event",
      endTime |-> "N/A",
      probability |-> 5,
      confidence |-> "High",
      warnings |-> <<"Base inversion below 500ft prevents stratus formation">>,
      reasoning |-> [SI |-> calculateSI, ON |-> calculateON, OFF |-> calculateOFF,
                     BI |-> baseInversion],
      synopticEffects |-> patternEffects(synopticPatterns) ]

\* lines 360-364: the running values before the first stage
baseValues ==
    LET siTiming == getSITiming(calculateSI)
    IN  [ startTime |-> siTiming.start * HourUnit,
          endTime |-> siTiming.end * HourUnit,
          probability |-> (1000 - siTiming.noCigProb) * (ProbUnit \div 10),
          confidence |-> "Medium",
          warnings |-> <<>> ]

\* lines 379-397
dewpointStage(a) ==
    IF afternoonDewpoint < 450
    THEN [a EXCEPT
            !.probability = TimesFactor(@, dewpointFactor(afternoonDewpoint)),
            !.warnings = Append(@, IF afternoonDewpoint < 420
                                   THEN "Minimum afternoon dewpoint well below 42F threshold"
                                   ELSE "Minimum afternoon dewpoint approaching 42F threshold"),
            !.confidence = IF afternoonDewpoint < 420 THEN "High" ELSE @]
    ELSE a

\* lines 399-411
onshoreThresholdStage(a) ==
    LET on == calculateON
        onMin == getMonthlyThresholds.onMin
    IN  IF on < onMin + 5
        THEN [a EXCEPT
                !.probability = TimesFactor(@, onFactor(on, onMin)),
                !.warnings = Append(@, IF on < onMin
                                       THEN "Onshore gradient below threshold"
                                       ELSE "Onshore gradient near threshold")]
        ELSE a

\* lines 413-425
offshoreThresholdStage(a) ==
    LET off == calculateOFF
        offMax == getMonthlyThresholds.offMax
    IN  IF off > offMax - 5
        THEN [a EXCEPT
                !.probability = TimesFactor(@, offFactor(off, offMax)),
                !.warnings = Append(@, IF off > offMax
                                       THEN "Offshore gradient above threshold"
                                       ELSE "Offshore gradient near threshold")]
        ELSE a

\* lines 427-433
onshoreGradientStage(a) ==
    IF calculateON >= 36
    THEN [a EXCEPT
            !.probability = TimesFactor(@, 1200),
            !.startTime = IF onPressure.trend24h > 0
                          THEN Max(HourUnit, @ - onPressure.trend24h * (HourUnit \div 10))
                          ELSE @]
    ELSE a

\* lines 435-440
offshoreGradientStage(a) ==
    IF calculateOFF >= 34
    THEN [a EXCEPT
            !.probability = TimesFactor(@, 700),
            !.startTime = IF offPressure.trend24h > 0
                          THEN @ + offPressure.trend24h * (HourUnit \div 10)
                          ELSE @]
    ELSE a

\* lines 442-460
inversionStage(a) ==
    IF baseInversion < 1200
    THEN [a EXCEPT
            !.probability = TimesFactor(@, inversionFactor(baseInversion)),
            !.startTime = @ + delayHours(baseInversion),
            !.warnings = Append(@, IF baseInversion < 1000
                                   THEN "Low inversion height significantly delays penetration"
                                   ELSE "Low inversion height delays penetration")]
    ELSE a

\* the trigger stage without its cap on the onset
triggerStageUncapped(a) ==
    IF hasTrigger
    THEN [a EXCEPT
            !.probability = TimesFactor(@, 1300),
            !.confidence = "High"]
    ELSE a

\* lines 462-467
triggerStage(a) ==
    IF hasTrigger
    THEN [a EXCEPT
            !.startTime = Max(HourUnit, Min(@, 3 * HourUnit)),
            !.probability = TimesFactor(@, 1300),
            !.confidence = "High"]
    ELSE a

\* lines 469-473
patternStageUnclamped(a) ==
    LET Adjusted(synopticEffects) ==
            [a EXCEPT
               !.probability = TimesFactor(@, synopticEffects.probabilityMultiplier),
               !.startTime = @ + synopticEffects.timingAdjustment,
               !.endTime = @ + synopticEffects.timingAdjustment \div 2]
    IN  ApplyTo(getSynopticPatternEffects, Adjusted)

patternStage(a) ==
    LET Adjusted(synopticEffects) ==
            [a EXCEPT
               !.probability = TimesFactor(@, synopticEffects.probabilityMultiplier),
               !.startTime = Max(HourUnit, @ + synopticEffects.timingAdjustment),
               !.endTime = @ + synopticEffects.timingAdjustment \div 2]
    IN  ApplyTo(getSynopticPatternEffects, Adjusted)

\* the wind stage adding a line to the warnings
windStageWarning(a) ==
    IF wind2k.direction >= 240 /\ wind2k.direction <= 300 /\ wind2k.speed > 10
    THEN [a EXCEPT
            !.startTime = Max(HourUnit, @ - HourUnit),
            !.probability = TimesFactor(@, 1100),
            !.warnings = Append(@, "Favorable 2000ft wind")]
    ELSE a

\* lines 475-479
windStage(a) ==
    IF wind2k.direction >= 240 /\ wind2k.direction <= 300 /\ wind2k.speed > 10
    THEN [a EXCEPT
            !.startTime = Max(HourUnit, @ - HourUnit),
            !.probability = TimesFactor(@, 1100)]
    ELSE a

\* the confidence decided by SI alone, whatever the earlier stages set
confidenceStageResetting(a) ==
    [a EXCEPT !.confidence = IF calculateSI < 100 \/ calculateSI > 220
                             THEN "High" ELSE "Medium"]

\* line 482
confidenceStage(a) ==
    IF calculateSI < 100 \/ calculateSI > 220 THEN [a EXCEPT !.confidence = "High"] ELSE a

\* the clamp without its upper limit
clampProbabilityLowerOnly(p) == Max(5 * ProbUnit, p)

\* line 484: Math.min(95, Math.max(5, probability)), in hundredths of a percent
clampProbability(p) == Min(95 * ProbUnit, Max(5 * ProbUnit, p))

\* the result with the windows built around the unrounded times
finalResultUnrounded(a) ==
    [ onsetWindow |-> [ earliest |-> Max(HourUnit, a.startTime - HourUnit),
                        latest |-> a.startTime + HourUnit,
                        mostProbable |-> a.startTime ],
      endWindow |-> [ earliest |-> a.endTime - HourUnit \div 2,
                      latest |-> a.endTime + HourUnit \div 2,
                      mostProbable |-> a.endTime ],
      burnOffHours |-> calculateBurnOffTime(burnOff.base, burnOff.top),
      probability |-> RoundDiv(clampProbability(a.probability), ProbUnit),
      confidence |-> a.confidence,
      warnings |-> a.warnings,
      reasoning |-> [SI |-> calculateSI, ON |-> calculateON, OFF |-> calculateOFF,
                     BI |-> baseInversion],
      synopticEffects |-> patternEffects(synopticPatterns) ]

\* lines 484-515
finalResult(a) ==
    LET roundedStartTime == roundToNearestHalfHour(a.startTime)
        roundedEndTime == roundToNearestHalfHour(a.endTime)
    IN  [ onsetWindow |-> [ earliest |-> Max(HourUnit, roundedStartTime - HourUnit),
                            latest |-> roundedStartTime + HourUnit,
                            mostProbable |-> roundedStartTime ],
          endWindow |-> [ earliest |-> roundedEndTime - HourUnit \div 2,
                          latest |-> roundedEndTime + HourUnit \div 2,
                          mostProbable |-> roundedEndTime ],
          burnOffHours |-> calculateBurnOffTime(burnOff.base, burnOff.top),
          probability |-> RoundDiv(clampProbability(a.probability), ProbUnit),
          confidence |-> a.confidence,
          warnings |-> a.warnings,
          reasoning |-> [SI |-> calculateSI, ON |-> calculateON, OFF |-> calculateOFF,
                         BI |-> baseInversion],
          synopticEffects |-> patternEffects(synopticPatterns) ]

\* lines 352-516
getFinalPrediction ==
    IF preventsFormation(baseInversion)
    THEN earlyExit
    ELSE LET a1 == ApplyTo(baseValues, dewpointStage)
             a2 == ApplyTo(a1, onshoreThresholdStage)
             a3 == ApplyTo(a2, offshoreThresholdStage)
             a4 == ApplyTo(a3, onshoreGradientStage)
             a5 == ApplyTo(a4, offshoreGradientStage)
             a6 == ApplyTo(a5, inversionStage)
             a7 == ApplyTo(a6, triggerStage)
             a8 == ApplyTo(a7, patternStage)
             a9 == ApplyTo(a8, windStage)
             a10 == ApplyTo(a9, confidenceStage)
         IN  ApplyTo(a10, finalResult)

\* The results panel (lines 1049-1093): prediction.onsetWindow.mostProbable is read
\* first; reading a member of undefined raises TypeError and the render fails.
renderPanel(p) ==
    IF "onsetWindow" \notin DOMAIN p THEN "TypeError"
    ELSE IF p.onsetWindow.mostProbable <= 24 * HourUnit THEN "windows"
    ELSE "No Stratus Event Expected"

(***************************************************************************)
(* App: construction and input handlers (lines 52-91, 604-998)             *)
(***************************************************************************)
MaxEdits == 3

MaxTempValues == {750, 860}
MaxDewpointValues == {580, 664}
OnSfoValues == {10150, 10148}
OnSmfValues == {10110, 10120}
OnTrendValues == {5, -10}
OffAcvValues == {10130, 10180, 10120, 10224}
OffSfoValues == {10190, 10146}
OffTrendValues == {-2, 10}
BaseInversionValues == {1400, 1100, 900, 500, 499}
WindDirectionValues == {270, 180}
WindSpeedValues == {15, 10}
TriggerValues == {"", "deepeningTrough", "shallowFront"}
PatternNames == {"thermalLow", "surfaceHigh", "upperRidge", "upperTrough", "cutoffLow"}
BurnOffBaseValues == {800, 500}
BurnOffTopValues == {1700, 2000}
MonthValues == {"May", "June", "July", "August", "September"}
AfternoonDewpointValues == {550, 440, 410, 200}

\* every state change re-renders: line 518 and the results panel
Render ==
    /\ prediction' = getFinalPrediction'
    /\ panel' = renderPanel(prediction')

\* an uncaught error while rendering unmounts the component: no handler runs after it
Mounted == panel # "TypeError" /\ nEdits < MaxEdits

AppInit ==
    /\ maxTemp = 750
    /\ maxDewpoint = 580
    /\ onPressure = [sfo |-> 10150, smf |-> 10110, acv |-> 0, trend24h |-> 5]
    /\ offPressure = [sfo |-> 10190, smf |-> 0, acv |-> 10130, trend24h |-> -2]
    /\ baseInversion = 1400
    /\ wind2k = [direction |-> 270, speed |-> 15]
    /\ selectedTrigger = ""
    /\ synopticPatterns = [n \in PatternNames |-> FALSE]
    /\ burnOff = [base |-> 800, top |-> 1700]
    /\ month = "July"
    /\ afternoonDewpoint = 550
    /\ prediction = getFinalPrediction
    /\ panel = renderPanel(prediction)
    /\ nEdits = 0

ChangeMaxTemp ==
    /\ Mounted
    /\ \E v \in MaxTempValues \ {maxTemp} : maxTemp' = v
    /\ UNCHANGED <<maxDewpoint, onPressure, offPressure, baseInversion, wind2k,
                   selectedTrigger, synopticPatterns, burnOff, month, afternoonDewpoint>>
    /\ nEdits' = nEdits + 1
    /\ Render

ChangeMaxDewpoint ==
    /\ Mounted
    /\ \E v \in MaxDewpointValues \ {maxDewpoint} : maxDewpoint' = v
    /\ UNCHANGED <<maxTemp, onPressure, offPressure, baseInversion, wind2k,
                   selectedTrigger, synopticPatterns, burnOff, month, afternoonDewpoint>>
    /\ nEdits' = nEdits + 1
    /\ Render

ChangeOnPressure ==
    /\ Mounted
    /\ \/ \E v \in OnSfoValues \ {onPressure.sfo} : onPressure' = [onPressure EXCEPT !.sfo = v]
       \/ \E v \in OnSmfValues \ {onPressure.smf} : onPressure' = [onPressure EXCEPT !.smf = v]
       \/ \E v \in OnTrendValues \ {onPressure.trend24h} :
              onPressure' = [onPressure EXCEPT !.trend24h = v]
    /\ UNCHANGED <<maxTemp, maxDewpoint, offPressure, baseInversion, wind2k,
                   selectedTrigger, synopticPatterns, burnOff, month, afternoonDewpoint>>
    /\ nEdits' = nEdits + 1
    /\ Render

ChangeOffPressure ==
    /\ Mounted
    /\ \/ \E v \in OffAcvValues \ {offPressure.acv} : offPressure' = [offPressure EXCEPT !.acv = v]
       \/ \E v \in OffSfoValues \ {offPressure.sfo} : offPressure' = [offPressure EXCEPT !.sfo = v]
       \/ \E v \in OffTrendValues \ {offPressure.trend24h} :
              offPressure' = [offPressure EXCEPT !.trend24h = v]
    /\ UNCHANGED <<maxTemp, maxDewpoint, onPressure, baseInversion, wind2k,
                   selectedTrigger, synopticPatterns, burnOff, month, afternoonDewpoint>>
    /\ nEdits' = nEdits + 1
    /\ Render

ChangeBaseInversion ==
    /\ Mounted
    /\ \E v \in BaseInversionValues \ {baseInversion} : baseInversion' = v
    /\ UNCHANGED <<maxTemp, maxDewpoint, onPressure, offPressure, wind2k,
                   selectedTrigger, synopticPatterns, burnOff, month, afternoonDewpoint>>
    /\ nEdits' = nEdits + 1
    /\ Render

ChangeWind2k ==
    /\ Mounted
    /\ \/ \E v \in WindDirectionValues \ {wind2k.direction} :
              wind2k' = [wind2k EXCEPT !.direction = v]
       \/ \E v \in WindSpeedValues \ {wind2k.speed} : wind2k' = [wind2k EXCEPT !.speed = v]
    /\ UNCHANGED <<maxTemp, maxDewpoint, onPressure, offPressure, baseInversion,
                   selectedTrigger, synopticPatterns, burnOff, month, afternoonDewpoint>>
    /\ nEdits' = nEdits + 1
    /\ Render

ChangeTrigger ==
    /\ Mounted
    /\ \E v \in TriggerValues \ {selectedTrigger} : selectedTrigger' = v
    /\ UNCHANGED <<maxTemp, maxDewpoint, onPressure, offPressure, baseInversion, wind2k,
                   synopticPatterns, burnOff, month, afternoonDewpoint>>
    /\ nEdits' = nEdits + 1
    /\ Render

TogglePattern ==
    /\ Mounted
    /\ \E n \in PatternNames :
           synopticPatterns' = [synopticPatterns EXCEPT ![n] = ~synopticPatterns[n]]
    /\ UNCHANGED <<maxTemp, maxDewpoint, onPressure, offPressure, baseInversion, wind2k,
                   selectedTrigger, burnOff, month, afternoonDewpoint>>
    /\ nEdits' = nEdits + 1
    /\ Render

ChangeBurnOff ==
    /\ Mounted
    /\ \/ \E v \in BurnOffBaseValues \ {burnOff.base} : burnOff' = [burnOff EXCEPT !.base = v]
       \/ \E v \in BurnOffTopValues \ {burnOff.top} : burnOff' = [burnOff EXCEPT !.top = v]
    /\ UNCHANGED <<maxTemp, maxDewpoint, onPressure, offPressure, baseInversion, wind2k,
                   selectedTrigger, synopticPatterns, month, afternoonDewpoint>>
    /\ nEdits' = nEdits + 1
    /\ Render

ChangeMonth ==
    /\ Mounted
    /\ \E v \in MonthValues \ {month} : month' = v
    /\ UNCHANGED <<maxTemp, maxDewpoint, onPressure, offPressure, baseInversion, wind2k,
                   selectedTrigger, synopticPatterns, burnOff, afternoonDewpoint>>
    /\ nEdits' = nEdits + 1
    /\ Render

ChangeAfternoonDewpoint ==
    /\ Mounted
    /\ \E v \in AfternoonDewpointValues \ {afternoonDewpoint} : afternoonDewpoint' = v
    /\ UNCHANGED <<maxTemp, maxDewpoint, onPressure, offPressure, baseInversion, wind2k,
                   selectedTrigger, synopticPatterns, burnOff, month>>
    /\ nEdits' = nEdits + 1
    /\ Render

(***************************************************************************)
(* Values of JavaScript type number | null, and a call that has not        *)
(* returned yet                                                            *)
(***************************************************************************)
null == [null |-> TRUE]
Num(v) == [num |-> v]
pending == [pending |-> TRUE]

(***************************************************************************)
(* Remarks decoder: src/src/utils/nwsApi.ts lines 23-70 and 230-254,       *)
(* src/unnamed/part_001 lines 176-195.  A text is a sequence of            *)
(* characters; positions count from 1 and 0 stands for "no match" (-1 of   *)
(* indexOf, null of match).  Pressures are in tenths of a millibar,        *)
(* Celsius values in tenths of a degree, Fahrenheit values in degrees.     *)
(***************************************************************************)
Digits == <<"0", "1", "2", "3", "4", "5", "6", "7", "8", "9">>
IsDigit(c) == \E i \in 1..Len(Digits) : Digits[i] = c
DigitValue(c) == (CHOOSE i \in 1..Len(Digits) : Digits[i] = c) - 1

\* parseInt of a run of decimal digits
RECURSIVE parseInt(_)
parseInt(ds) ==
    IF ds = <<>> THEN 0
    ELSE 10 * parseInt(SubSeq(ds, 1, Len(ds) - 1)) + DigitValue(ds[Len(ds)])

\* the least element of a set of positions, 0 for the empty set
Leftmost(at) == IF at = {} THEN 0 ELSE CHOOSE i \in at : \A j \in at : i <= j

\* String.prototype.indexOf
indexOf(text, pat) ==
    LET Find(t) == Leftmost({i \in 1..(Len(t) - Len(pat) + 1) :
                                SubSeq(t, i, i + Len(pat) - 1) = pat})
    IN  ApplyTo(text, Find)

\* String.prototype.substring(from)
substring(text, from) == SubSeq(text, from, Len(text))

AllDigits(t, from, to) == \A k \in from..to : IsDigit(t[k])

\* text.match(/T([01])(\d{3})([01])(\d{3})/): where the leftmost match starts
matchTGroup(text) ==
    LET Find(t) == Leftmost({i \in 1..(Len(t) - 8) :
                                /\ t[i] = "T"
                                /\ t[i + 1] \in {"0", "1"}
                                /\ AllDigits(t, i + 2, i + 4)
                                /\ t[i + 5] \in {"0", "1"}
                                /\ AllDigits(t, i + 6, i + 8)})
    IN  ApplyTo(text, Find)

\* text.match(/SLP(\d{3})/)
matchSLP(text) ==
    LET Find(t) == Leftmost({i \in 1..(Len(t) - 5) :
                                /\ SubSeq(t, i, i + 2) = <<"S", "L", "P">>
                                /\ AllDigits(t, i + 3, i + 5)})
    IN  ApplyTo(text, Find)

\* text.match(/A(\d{4})/)
matchAltimeter(text) ==
    LET Find(t) == Leftmost({i \in 1..(Len(t) - 4) :
                                t[i] = "A" /\ AllDigits(t, i + 1, i + 4)})
    IN  ApplyTo(text, Find)

\* the conversion with the fraction dropped instead of rounded
celsiusToFahrenheitFloor(celsius) == (9 * celsius + 1600) \div 50

\* nwsApi.ts 24-26: Math.round(celsius * 9/5 + 32), celsius in tenths of a degree
celsiusToFahrenheit(celsius) == RoundDiv(9 * celsius + 1600, 50)

\* nwsApi.ts 29-70
parseMaxFromRemarks(rawMetar_) ==
    LET none == [maxTemp |-> null, maxDewpoint |-> null]
        Decode(remarks) ==
            LET m == matchTGroup(remarks)
                tempSign == IF remarks[m + 1] = "1" THEN -1 ELSE 1
                tempTenths == parseInt(SubSeq(remarks, m + 2, m + 4))
                dewSign == IF remarks[m + 5] = "1" THEN -1 ELSE 1
                dewTenths == parseInt(SubSeq(remarks, m + 6, m + 8))
            IN  IF m = 0 THEN none
                ELSE [ maxTemp |-> Num(celsiusToFahrenheit(tempSign * tempTenths)),
                       maxDewpoint |-> Num(celsiusToFahrenheit(dewSign * dewTenths)) ]
        rmkIndex == indexOf(rawMetar_, <<"R", "M", "K">>)
    IN  IF rawMetar_ = <<>> THEN none
        ELSE IF rmkIndex = 0 THEN none
        ELSE ApplyTo(substring(rawMetar_, rmkIndex), Decode)

\* nwsApi.ts 236-254: the whole text is searched, and both branches add 1000
parseSLPFromRemarks(rawMetar_) ==
    LET m == matchSLP(rawMetar_)
        slpValue == parseInt(SubSeq(rawMetar_, m + 3, m + 5))
    IN  IF rawMetar_ = <<>> THEN null
        ELSE IF m = 0 THEN null
        ELSE IF slpValue >= 500 THEN Num(10000 + slpValue)
        ELSE Num(10000 + slpValue)

\* part_001 177-195: only the remarks are searched, 900 is added from 500 up
parseSLPFromRemarks001(rawMetar_) ==
    LET Decode(remarks) ==
            LET m == matchSLP(remarks)
                slpValue == parseInt(SubSeq(remarks, m + 3, m + 5))
            IN  IF m = 0 THEN null
                ELSE IF slpValue < 500 THEN Num(10000 + slpValue)
                ELSE Num(9000 + slpValue)
        rmkIndex == indexOf(rawMetar_, <<"R", "M", "K">>)
    IN  IF rawMetar_ = <<>> THEN null
        ELSE IF rmkIndex = 0 THEN null
        ELSE ApplyTo(substring(rawMetar_, rmkIndex), Decode)

(***************************************************************************)
(* Reports: what a station encodes and the text it sends                   *)
(***************************************************************************)
Pad3(n) == <<Digits[((n \div 100) % 10) + 1], Digits[((n \div 10) % 10) + 1],
             Digits[(n % 10) + 1]>>

\* e.g. KSFO 14/08 A2992 RMK AO2 SLP146 T01390083
ReportText(r) ==
    IF r = null THEN <<>>
    ELSE <<"K", "S", "F", "O", " ", "1", "4", "/", "0", "8", " ",
           "A", "2", "9", "9", "2">>
         \o (IF r.hasRMK THEN <<" ", "R", "M", "K", " ", "A", "O", "2">> ELSE <<>>)
         \o (IF r.slp # null THEN <<" ", "S", "L", "P">> \o Pad3(r.slp.num) ELSE <<>>)
         \o (IF r.temps # null
             THEN <<" ", "T", Digits[r.temps.tSign + 1]>> \o Pad3(r.temps.tTenths)
                  \o <<Digits[r.temps.dSign + 1]>> \o Pad3(r.temps.dTenths)
             ELSE <<>>)

TGroup(ts, tt, ds, dt) == [tSign |-> ts, tTenths |-> tt, dSign |-> ds, dTenths |-> dt]

Reports ==
    {null}
    \cup {[hasRMK |-> TRUE, slp |-> Num(x), temps |-> TGroup(0, 139, 1, 83)] :
             x \in 0..999}
    \cup {[hasRMK |-> TRUE, slp |-> Num(146), temps |-> TGroup(s, t, 1, 83)] :
             s \in 0..1, t \in 0..999}
    \cup {[hasRMK |-> TRUE, slp |-> Num(146), temps |-> TGroup(0, 139, s, t)] :
             s \in 0..1, t \in 0..999}
    \cup {[hasRMK |-> b, slp |-> x, temps |-> y] :
             b \in BOOLEAN, x \in {null, Num(146), Num(523)},
             y \in {null, TGroup(0, 139, 1, 83)}}

DecodeInit ==
    /\ report \in Reports
    /\ rawMetar = ReportText(report)
    /\ decoded = [max |-> pending, slp |-> pending, slp001 |-> pending]

\* the decoder at rest, for the specifications of the other components
DecodeIdle ==
    /\ report = null
    /\ rawMetar = <<>>
    /\ decoded = [max |-> pending, slp |-> pending, slp001 |-> pending]

CallParseMaxFromRemarks ==
    /\ decoded.max = pending
    /\ decoded' = [decoded EXCEPT !.max = parseMaxFromRemarks(rawMetar)]
    /\ UNCHANGED <<report, rawMetar>>

CallParseSLPFromRemarks ==
    /\ decoded.slp = pending
    /\ decoded' = [decoded EXCEPT !.slp = parseSLPFromRemarks(rawMetar)]
    /\ UNCHANGED <<report, rawMetar>>

CallParseSLPFromRemarks001 ==
    /\ decoded.slp001 = pending
    /\ decoded' = [decoded EXCEPT !.slp001 = parseSLPFromRemarks001(rawMetar)]
    /\ UNCHANGED <<report, rawMetar>>

(***************************************************************************)
(* KSFO temperature window: src/src/utils/nwsApi.ts lines 72-212 (19-23Z,  *)
(* hourly reports only) and lines 659-784 (20-00Z).  A timestamp is a      *)
(* number of minutes of UTC time; primary temperature and dewpoint values  *)
(* are in tenths of a degree Celsius.                                      *)
(***************************************************************************)
undefined == [undefined |-> TRUE]
Thrown(message) == [thrown |-> message]

getUTCHours(timestamp) == (timestamp \div 60) % 24
getUTCMinutes(timestamp) == timestamp % 60

\* nwsApi.ts 73-79
getCurrentDewpoint(observation) ==
    IF observation.dewpoint # undefined
    THEN Num(celsiusToFahrenheit(observation.dewpoint.num))
    ELSE null

\* nwsApi.ts 82-88
isIn19to23ZWindow(timestamp) ==
    getUTCHours(timestamp) >= 19 /\ getUTCHours(timestamp) <= 23

\* the hourly test widened to the last ten minutes of the hour
isHourlyMetarFrom50(timestamp) ==
    getUTCMinutes(timestamp) >= 50 /\ getUTCMinutes(timestamp) <= 59

\* nwsApi.ts 91-97
isHourlyMetar(timestamp) ==
    getUTCMinutes(timestamp) >= 53 /\ getUTCMinutes(timestamp) <= 59

\* nwsApi.ts 669-686
isIn20to00ZWindow(timestamp) ==
    \/ getUTCHours(timestamp) >= 20 /\ getUTCHours(timestamp) <= 23
    \/ getUTCHours(timestamp) = 19 /\ getUTCMinutes(timestamp) >= 50

\* a running maximum that starts at the sentinel
initialMaxSentinel == Num(-999)

\* nwsApi.ts 163-165, 737-739: let maxTemp: number | null = null
initialMax == null

\* maxTemp === null ? value : Math.max(maxTemp, value)
maxOrFirst(running, value) ==
    IF running = null THEN Num(value) ELSE Num(Max(running.num, value))

\* Math.max(maxTemp || -999, value): null and 0 are both falsy
maxOrSentinel(running, value) ==
    IF running = null \/ running = Num(0) THEN Num(Max(-999, value))
    ELSE Num(Max(running.num, value))

\* if (obs.timestamp > latestTimestamp); 0 stands for the empty string
laterOf(latestTimestamp, timestamp) ==
    IF timestamp > latestTimestamp THEN timestamp ELSE latestTimestamp

\* nwsApi.ts 168-199: the body of the loop
step19to23Z(acc, obs) ==
    LET remarksData == parseMaxFromRemarks(obs.rawMessage)
        Body(rd) ==
            LET t1 == IF rd.maxTemp # null
                      THEN maxOrFirst(acc.maxTemp, rd.maxTemp.num) ELSE acc.maxTemp
                d1 == IF rd.maxDewpoint # null
                      THEN maxOrFirst(acc.maxDewpoint, rd.maxDewpoint.num)
                      ELSE acc.maxDewpoint
                t2 == IF obs.temperature # undefined
                      THEN maxOrFirst(t1, celsiusToFahrenheit(obs.temperature.num))
                      ELSE t1
                d2 == IF obs.dewpoint # undefined
                      THEN maxOrFirst(d1, celsiusToFahrenheit(obs.dewpoint.num))
                      ELSE d1
            IN  [ maxTemp |-> t2, maxDewpoint |-> d2,
                  latestTimestamp |-> laterOf(acc.latestTimestamp, obs.timestamp) ]
    IN  ApplyTo(remarksData, Body)

\* nwsApi.ts 742-761: the body of the first loop
step20to00Z(acc, obs) ==
    LET remarksData == parseMaxFromRemarks(obs.rawMessage)
        Body(rd) ==
            LET currentDewpoint == getCurrentDewpoint(obs)
            IN  [ maxTemp |-> IF rd.maxTemp # null
                              THEN maxOrSentinel(acc.maxTemp, rd.maxTemp.num)
                              ELSE acc.maxTemp,
                  maxDewpoint |-> IF currentDewpoint # null
                                  THEN maxOrSentinel(acc.maxDewpoint, currentDewpoint.num)
                                  ELSE acc.maxDewpoint,
                  latestTimestamp |-> laterOf(acc.latestTimestamp, obs.timestamp) ]
    IN  ApplyTo(remarksData, Body)

\* nwsApi.ts 765-770: the body of the fallback loop
fallback20to00Z(acc, obs) ==
    IF obs.temperature # undefined
    THEN [acc EXCEPT !.maxTemp =
              maxOrSentinel(@, celsiusToFahrenheit(obs.temperature.num))]
    ELSE acc

\* for (const obs of relevantObs) { acc = Step(acc, obs) }
forEach(acc, obsList, Step(_, _)) ==
    LET after[i \in 0..Len(obsList)] ==
            IF i = 0 THEN acc
            ELSE LET Do(a) == Step(a, obsList[i]) IN ApplyTo(after[i - 1], Do)
    IN  after[Len(obsList)]

relevant19to23Z(obs) == isIn19to23ZWindow(obs.timestamp) /\ isHourlyMetar(obs.timestamp)
relevant20to00Z(obs) == isIn20to00ZWindow(obs.timestamp)

\* latestTimestamp || new Date().toISOString()
timestampOrNow(latestTimestamp) ==
    IF latestTimestamp = 0 THEN [now |-> TRUE] ELSE Num(latestTimestamp)

\* nwsApi.ts 118-212
fetchKSFOTemperatureData19to23Z(response) ==
    IF ~response.ok THEN Thrown("NWS API error")
    ELSE IF response.features = <<>> THEN Thrown("No observations available")
    ELSE LET relevantObs == SelectSeq(response.features, relevant19to23Z)
             Result(r) == [ maxTemp |-> r.maxTemp, maxDewpoint |-> r.maxDewpoint,
                            timestamp |-> timestampOrNow(r.latestTimestamp) ]
         IN  ApplyTo(forEach([maxTemp |-> initialMax, maxDewpoint |-> initialMax,
                              latestTimestamp |-> 0], relevantObs, step19to23Z),
                     Result)

\* nwsApi.ts 705-784
fetchKSFOTemperatureData20to00Z(response) ==
    IF ~response.ok THEN Thrown("NWS API error")
    ELSE IF response.features = <<>> THEN Thrown("No observations available")
    ELSE LET relevantObs == SelectSeq(response.features, relevant20to00Z)
             Fallback(r) == IF r.maxTemp = null
                            THEN forEach(r, relevantObs, fallback20to00Z) ELSE r
             Result(r) == [ maxTemp |-> r.maxTemp, maxDewpoint |-> r.maxDewpoint,
                            timestamp |-> timestampOrNow(r.latestTimestamp) ]
         IN  ApplyTo(ApplyTo(forEach([maxTemp |-> initialMax, maxDewpoint |-> initialMax,
                                      latestTimestamp |-> 0], relevantObs, step20to00Z),
                             Fallback),
                     Result)

\* part_001 77-84 (the same lines are part_000 245-252)
isIn20to24ZWindow(timestamp) ==
    getUTCHours(timestamp) >= 20 \/ getUTCHours(timestamp) <= 23

\* part_001 87-160: the loops of nwsApi.ts 737-771 behind the 20-24Z window test
fetchKSFOTemperatureData20to24Z(response) ==
    IF ~response.ok THEN Thrown("NWS API error")
    ELSE IF response.features = <<>> THEN Thrown("No observations available")
    ELSE LET relevant(obs) == isIn20to24ZWindow(obs.timestamp)
             relevantObs == SelectSeq(response.features, relevant)
             Fallback(r) == IF r.maxTemp = null
                            THEN forEach(r, relevantObs, fallback20to00Z) ELSE r
             Result(r) == [ maxTemp |-> r.maxTemp, maxDewpoint |-> r.maxDewpoint,
                            timestamp |-> timestampOrNow(r.latestTimestamp) ]
         IN  ApplyTo(ApplyTo(forEach([maxTemp |-> initialMax, maxDewpoint |-> initialMax,
                                      latestTimestamp |-> 0], relevantObs, step20to00Z),
                             Fallback),
                     Result)

(***************************************************************************)
(* The observations the service may return for KSFO                        *)
(***************************************************************************)
MaxObs == 3

At(hour, minute) == 1440 + 60 * hour + minute

Observation(ts, r, t, d) ==
    [timestamp |-> ts, report |-> r, rawMessage |-> ReportText(r),
     temperature |-> t, dewpoint |-> d]

RemarksWith(temps) == [hasRMK |-> TRUE, slp |-> Num(146), temps |-> temps]

KsfoObservations ==
    { \* hourly report in both windows, remarks group 13.9 / -8.3 C and primary values
      Observation(At(19, 56), RemarksWith(TGroup(0, 139, 1, 83)), Num(139), Num(-83)),
      \* no raw text; primary -17.8 C is 0 F
      Observation(At(21, 55), null, Num(-178), Num(-250)),
      \* outside both windows, carries everything
      Observation(At(10, 56), RemarksWith(TGroup(0, 250, 0, 150)), Num(250), Num(150)),
      \* half past the hour: inside 20-00Z, not an hourly report
      Observation(At(21, 30), RemarksWith(null), Num(200), Num(100)),
      \* in both windows, carries nothing
      Observation(At(22, 56), null, undefined, undefined),
      \* 1952Z: inside 20-00Z by the grace period, not hourly; a dewpoint only
      Observation(At(19, 52), [hasRMK |-> FALSE, slp |-> null,
                               temps |-> TGroup(0, 139, 1, 83)], undefined, Num(120)),
      \* remarks group only, below zero Fahrenheit
      Observation(At(23, 56), RemarksWith(TGroup(1, 200, 1, 250)), undefined, undefined),
      \* remarks without a temperature group, no primary values
      Observation(At(20, 56), RemarksWith(null), undefined, undefined),
      \* no raw text; primary values below zero Fahrenheit (-4 F, -13 F)
      Observation(At(22, 54), null, Num(-200), Num(-250)) }

RECURSIVE ListsUpTo(_, _)
ListsUpTo(S, n) ==
    IF n = 0 THEN {<<>>}
    ELSE LET shorter == ListsUpTo(S, n - 1)
         IN  shorter \cup {Append(l, x) : l \in {m \in shorter : Len(m) = n - 1}, x \in S}

KsfoResponses ==
    {[ok |-> FALSE, features |-> <<>>]}
    \cup {[ok |-> TRUE, features |-> l] : l \in ListsUpTo(KsfoObservations, MaxObs)}

TempInit ==
    /\ ksfoResponse \in KsfoResponses
    /\ temperatureData = [z19to23 |-> pending, z20to00 |-> pending,
                          z20to24 |-> pending]

TempIdle ==
    /\ ksfoResponse = [ok |-> FALSE, features |-> <<>>]
    /\ temperatureData = [z19to23 |-> pending, z20to00 |-> pending,
                          z20to24 |-> pending]

CallFetchKSFOTemperatureData19to23Z ==
    /\ temperatureData.z19to23 = pending
    /\ temperatureData' = [temperatureData EXCEPT
                              !.z19to23 = fetchKSFOTemperatureData19to23Z(ksfoResponse)]
    /\ UNCHANGED ksfoResponse

CallFetchKSFOTemperatureData20to00Z ==
    /\ temperatureData.z20to00 = pending
    /\ temperatureData' = [temperatureData EXCEPT
                              !.z20to00 = fetchKSFOTemperatureData20to00Z(ksfoResponse)]
    /\ UNCHANGED ksfoResponse

CallFetchKSFOTemperatureData20to24Z ==
    /\ temperatureData.z20to24 = pending
    /\ temperatureData' = [temperatureData EXCEPT
                              !.z20to24 = fetchKSFOTemperatureData20to24Z(ksfoResponse)]
    /\ UNCHANGED ksfoResponse

(***************************************************************************)
(* Three-station pressure fetch: src/src/utils/nwsApi.ts lines 230-379 and *)
(* src/unnamed/part_001 lines 198-275.  The three requests are in flight   *)
(* together; a response is handled when it arrives, and the handling of    *)
(* the response that settles Promise.all also runs what awaits it.         *)
(***************************************************************************)
\* nwsApi.ts 231-233: Math.round(inHg * 33.8639 * 10) / 10 in tenths of a millibar,
\* for an altimeter setting in hundredths of an inch
inHgToMb(hundredths) ==
    (10 * (hundredths * 338) + (hundredths * 639 + 50000) \div 100) \div 1000

\* nwsApi.ts 257-267
is6HourlyMetar(timestamp) ==
    /\ getUTCHours(timestamp) \in {23, 5, 11, 17}
    /\ getUTCMinutes(timestamp) >= 53 /\ getUTCMinutes(timestamp) <= 59

is6HourlyObs(obs) == is6HourlyMetar(obs.timestamp)

\* nwsApi.ts 297-359: the promise fetchStationPressureData settles with
fetchStationPressureData(stationId, response) ==
    IF response.status = "networkError" THEN Thrown("Failed to fetch")
    ELSE IF response.status # "ok" THEN Thrown("NWS API error")
    ELSE IF response.features = <<>> THEN Thrown("No observations available")
    ELSE LET sixHourlyObs == SelectSeq(response.features, is6HourlyObs)
             Pressure(mostRecent) ==
                 LET slp == parseSLPFromRemarks(mostRecent.rawMessage)
                     altMatch == matchAltimeter(mostRecent.rawMessage)
                 IN  [ station |-> stationId,
                       pressure |->
                           IF slp = null /\ mostRecent.rawMessage # <<>>
                           THEN IF altMatch # 0
                                THEN Num(inHgToMb(parseInt(
                                         SubSeq(mostRecent.rawMessage,
                                                altMatch + 1, altMatch + 4))))
                                ELSE null
                           ELSE slp,
                       timestamp |-> mostRecent.timestamp ]
         IN  IF sixHourlyObs = <<>> THEN Thrown("No 6-hourly observations found")
             ELSE ApplyTo(sixHourlyObs[1], Pressure)

NwsStations == {"KACV", "KSFO", "KSMF"}

\* nwsApi.ts 362-379: Promise.all rejects with the first rejection and fulfils
\* when the three promises are fulfilled
fetchAllStationPressureData(responses) ==
    LET settled(s) == fetchStationPressureData(s, responses[s])
    IN  IF \E s \in NwsStations :
               responses[s] # pending /\ "thrown" \in DOMAIN settled(s)
        THEN Thrown("Error fetching all station pressure data")
        ELSE IF \E s \in NwsStations : responses[s] = pending THEN pending
        ELSE [acv |-> settled("KACV"), sfo |-> settled("KSFO"), smf |-> settled("KSMF")]

\* part_001 231-244: the first observation whose remarks hold an SLP group
RECURSIVE firstWithSLP(_, _)
firstWithSLP(station, observations) ==
    IF observations = <<>> THEN [station |-> station, pressure |-> null, timestamp |-> 0]
    ELSE LET Try(slp) ==
                 IF slp # null
                 THEN [ station |-> station, pressure |-> slp,
                        timestamp |-> Head(observations).timestamp ]
                 ELSE firstWithSLP(station, Tail(observations))
         IN  ApplyTo(parseSLPFromRemarks001(Head(observations).rawMessage), Try)

\* part_001 210-249: what the station's promise is fulfilled with
fetchStation001(station, response) ==
    IF response.status # "ok"
    THEN [station |-> station, pressure |-> null, timestamp |-> 0]
    ELSE firstWithSLP(station, response.features)

\* String.prototype.toLowerCase on the letters of the station names
toLowerCase(text) ==
    LET lower(c) == CASE c = "A" -> "a" [] c = "C" -> "c" [] c = "F" -> "f"
                      [] c = "K" -> "k" [] c = "M" -> "m" [] c = "O" -> "o"
                      [] c = "S" -> "s" [] c = "V" -> "v" [] OTHER -> c
    IN  [i \in 1..Len(text) |-> lower(text[i])]

\* String.prototype.replace(pat, '') : the first occurrence is removed
removeFirst(text, pat) ==
    LET Cut(at) == IF at = 0 THEN text
                   ELSE SubSeq(text, 1, at - 1) \o SubSeq(text, at + Len(pat), Len(text))
    IN  ApplyTo(indexOf(text, pat), Cut)

Stations001 == {<<"A", "C", "V">>, <<"K", "S", "F", "O">>, <<"S", "M", "F">>}

stationKey(station) == removeFirst(toLowerCase(station), <<"k">>)

\* part_001 251-269: after Promise.all, the pressures by key
fetchPressureData(responses) ==
    IF \E s \in Stations001 : responses[s] = pending THEN pending
    ELSE LET results == {fetchStation001(s, responses[s]) : s \in Stations001}
             pressureOf(key) ==
                 IF \E r \in results : stationKey(r.station) = key
                 THEN (CHOOSE r \in results : stationKey(r.station) = key).pressure
                 ELSE null
             latest == CHOOSE t \in {r.timestamp : r \in results} :
                           \A r \in results : r.timestamp <= t
         IN  [ acv |-> pressureOf(<<"a", "c", "v">>),
               sfo |-> pressureOf(<<"s", "f", "o">>),
               smf |-> pressureOf(<<"s", "m", "f">>),
               timestamp |-> timestampOrNow(latest) ]

(***************************************************************************)
(* What the service may answer for one station                             *)
(***************************************************************************)
StationObservation(ts, r) == [timestamp |-> ts, report |-> r, rawMessage |-> ReportText(r)]

StationResponses ==
    { [status |-> "networkError", features |-> <<>>],
      [status |-> "httpError", features |-> <<>>],
      [status |-> "ok", features |-> <<>>],
      \* a 2156Z report only: no 6-hourly report in the list
      [status |-> "ok", features |->
          << StationObservation(At(21, 56), [hasRMK |-> TRUE, slp |-> Num(152),
                                             temps |-> null]) >>],
      \* the 2356Z report with SLP146
      [status |-> "ok", features |->
          << StationObservation(At(23, 56), [hasRMK |-> TRUE, slp |-> Num(146),
                                             temps |-> null]) >>],
      \* the 2356Z report without an SLP group, then the 2256Z report with SLP139
      [status |-> "ok", features |->
          << StationObservation(At(23, 56), [hasRMK |-> TRUE, slp |-> null,
                                             temps |-> null]),
             StationObservation(At(22, 56), [hasRMK |-> TRUE, slp |-> Num(139),
                                             temps |-> null]) >>] }

StationsOf(revision) == IF revision = "nwsApi" THEN NwsStations ELSE Stations001

StationInit ==
    /\ pressureRevision \in {"nwsApi", "part_001"}
    /\ stationResponse = [s \in StationsOf(pressureRevision) |-> pending]
    /\ pressureCall = pending

StationIdle ==
    /\ pressureRevision = "nwsApi"
    /\ stationResponse = [s \in NwsStations |-> pending]
    /\ pressureCall = pending

\* nwsApi.ts: the response for one station arrives
StationRespondsNws ==
    /\ pressureRevision = "nwsApi"
    /\ \E s \in NwsStations, r \in StationResponses :
           /\ stationResponse[s] = pending
           /\ stationResponse' = [stationResponse EXCEPT ![s] = r]
    /\ pressureCall' = IF pressureCall = pending
                       THEN fetchAllStationPressureData(stationResponse')
                       ELSE pressureCall
    /\ UNCHANGED pressureRevision

\* part_001: the response for one station arrives
StationResponds001 ==
    /\ pressureRevision = "part_001"
    /\ \E s \in Stations001, r \in StationResponses :
           /\ stationResponse[s] = pending
           /\ stationResponse' = [stationResponse EXCEPT ![s] = r]
    /\ pressureCall' = fetchPressureData(stationResponse')
    /\ UNCHANGED pressureRevision

(***************************************************************************)
(* Pressure gradients and trends: src/src/utils/pressureApi.ts lines       *)
(* 21-171 and src/unnamed/part_000 lines 43-203.  barometricPressure is in *)
(* pascals, pressures and gradients in tenths of a millibar, times in      *)
(* minutes.  The service answers a station with its observations, newest   *)
(* first.                                                                  *)
(***************************************************************************)
\* pressureApi.ts 22-24: Math.round((pascals / 100) * 10) / 10
paToMb(pascals) == RoundDiv(pascals, 10)

\* pressureApi.ts 27-31
is6HourlyMetarPressureApi(timestamp) == getUTCHours(timestamp) % 6 = 0

is6HourlyPressureObs(obs) == is6HourlyMetarPressureApi(obs.timestamp)

\* if (props.barometricPressure?.value): undefined, null and 0 are falsy
HasPressure(feature) ==
    feature.barometricPressure # undefined /\ feature.barometricPressure # Num(0)

\* pressureApi.ts 34-68
fetchStationPressureApi(stationId, response) ==
    IF response.status # "ok" THEN Thrown("NWS API error")
    ELSE LET kept == SelectSeq(response.features, HasPressure)
         IN  [i \in 1..Len(kept) |->
                 [ timestamp |-> kept[i].timestamp,
                   pressure |-> paToMb(kept[i].barometricPressure.num),
                   stationId |-> stationId ]]

\* pressureApi.ts 71-74
getMostRecent6Hourly(observations) ==
    LET sixHourlyObs == SelectSeq(observations, is6HourlyPressureObs)
    IN  IF Len(sixHourlyObs) > 0 THEN sixHourlyObs[1] ELSE null

\* the first element of obsList at the least distance from target: the loop
\* replaces its candidate only on a strictly smaller difference
closestTo(obsList, target) ==
    IF obsList = <<>> THEN null
    ELSE obsList[CHOOSE i \in 1..Len(obsList) :
                    /\ \A j \in 1..Len(obsList) :
                           Abs(obsList[i].timestamp - target)
                               <= Abs(obsList[j].timestamp - target)
                    /\ \A j \in 1..(i - 1) :
                           Abs(obsList[j].timestamp - target)
                               > Abs(obsList[i].timestamp - target)]

\* pressureApi.ts 77-97
get24HourAgo6Hourly(observations, now) ==
    closestTo(SelectSeq(observations, is6HourlyPressureObs), now - 24 * 60)

PressureApiStations == {"ACV", "SFO", "SMF"}

\* pressureApi.ts 100-171
fetchPressureGradientData(responses, now) ==
    LET obsOf(s) == fetchStationPressureApi(s, responses[s])
        Gradients(six) ==
            LET currentACV == six[1]  currentSFO == six[2]  currentSMF == six[3]
                past24ACV == six[4]   past24SFO == six[5]   past24SMF == six[6]
                currentOffshore == currentACV.pressure - currentSFO.pressure
                currentOnshore == currentSFO.pressure - currentSMF.pressure
                allPast == past24ACV # null /\ past24SFO # null /\ past24SMF # null
            IN  IF currentACV = null \/ currentSFO = null \/ currentSMF = null
                THEN Thrown("Missing recent METAR data")
                ELSE [ currentOffshore |-> currentOffshore,
                       currentOnshore |-> currentOnshore,
                       trend24hOffshore |->
                           IF allPast
                           THEN currentOffshore - (past24ACV.pressure - past24SFO.pressure)
                           ELSE 0,
                       trend24hOnshore |->
                           IF allPast
                           THEN currentOnshore - (past24SFO.pressure - past24SMF.pressure)
                           ELSE 0 ]
    IN  IF \E s \in PressureApiStations : responses[s].status # "ok"
        THEN Thrown("NWS API error")
        ELSE ApplyTo(<< getMostRecent6Hourly(obsOf("ACV")),
                        getMostRecent6Hourly(obsOf("SFO")),
                        getMostRecent6Hourly(obsOf("SMF")),
                        get24HourAgo6Hourly(obsOf("ACV"), now),
                        get24HourAgo6Hourly(obsOf("SFO"), now),
                        get24HourAgo6Hourly(obsOf("SMF"), now) >>, Gradients)

\* part_000 44-46 applied to pressure / 3386.39: pascals to tenths of a millibar
inHgToMb000(pascals) == RoundDiv(pascals, 10)

\* part_000 49-71: the latest of 00Z, 06Z, 12Z, 18Z not after currentTime
getMostRecent6HourlyTime(currentTime) == (currentTime \div 360) * 360

\* part_000 74-78
isNearTargetTime(obsTime, targetTime) == Abs(obsTime - targetTime) <= 60

\* the request of part_000 84-88: the station's observations from two hours
\* before to two hours after the target time
observationsAround(history, targetTime) ==
    LET InRange(f) == f.timestamp >= targetTime - 120 /\ f.timestamp <= targetTime + 120
    IN  SelectSeq(history, InRange)

\* part_000 81-130
fetchStationPressure000(stationId, targetTime, response) ==
    IF response.status # "ok" THEN null
    ELSE LET Usable(f) == /\ f.barometricPressure # undefined
                          /\ f.barometricPressure # Num(0)
                          /\ isNearTargetTime(f.timestamp, targetTime)
             Sample(f) == IF f = null THEN null
                          ELSE [ station |-> stationId,
                                 pressure |-> inHgToMb000(f.barometricPressure.num),
                                 timestamp |-> f.timestamp ]
         IN  ApplyTo(closestTo(SelectSeq(observationsAround(response.features, targetTime),
                                         Usable), targetTime), Sample)

\* part_000 133-144
calculateGradients(sfoPress, oakPress, sjcPress) ==
    [offshore |-> sfoPress - oakPress, onshore |-> sjcPress - sfoPress]

\* part_000 147-203
fetchPressureGradients(responses, currentTime) ==
    LET recentTime == getMostRecent6HourlyTime(currentTime)
        past24Time == recentTime - 24 * 60
        Gradients(six) ==
            LET sfoNow == six[1]  oakNow == six[2]  sjcNow == six[3]
                sfo24 == six[4]   oak24 == six[5]   sjc24 == six[6]
                allNow == sfoNow # null /\ oakNow # null /\ sjcNow # null
                all24 == sfo24 # null /\ oak24 # null /\ sjc24 # null
                currentGradients ==
                    calculateGradients(sfoNow.pressure, oakNow.pressure, sjcNow.pressure)
                past24Gradients ==
                    calculateGradients(sfo24.pressure, oak24.pressure, sjc24.pressure)
            IN  [ offshoreGradient |-> IF allNow THEN Num(currentGradients.offshore)
                                       ELSE null,
                  onshoreGradient |-> IF allNow THEN Num(currentGradients.onshore)
                                      ELSE null,
                  offshore24hrTrend |->
                      IF allNow /\ all24
                      THEN Num(currentGradients.offshore - past24Gradients.offshore)
                      ELSE null,
                  onshore24hrTrend |->
                      IF allNow /\ all24
                      THEN Num(currentGradients.onshore - past24Gradients.onshore)
                      ELSE null,
                  timestamp |-> recentTime ]
    IN  ApplyTo(<< fetchStationPressure000("KSFO", recentTime, responses["KSFO"]),
                   fetchStationPressure000("KOAK", recentTime, responses["KOAK"]),
                   fetchStationPressure000("KSJC", recentTime, responses["KSJC"]),
                   fetchStationPressure000("KSFO", past24Time, responses["KSFO"]),
                   fetchStationPressure000("KOAK", past24Time, responses["KOAK"]),
                   fetchStationPressure000("KSJC", past24Time, responses["KSJC"]) >>,
                Gradients)

(***************************************************************************)
(* What the service may hold for one station                               *)
(***************************************************************************)
AtDay(day, hour, minute) == 1440 * day + 60 * hour + minute

Feature(ts, p) == [timestamp |-> ts, barometricPressure |-> p]

StationHistories ==
    { [status |-> "httpError", features |-> <<>>],
      [status |-> "ok", features |-> <<>>],
      \* the 12Z report of today and the 12Z report of yesterday
      [status |-> "ok", features |-> << Feature(AtDay(2, 12, 0), Num(101320)),
                                        Feature(AtDay(1, 12, 0), Num(101200)) >>],
      [status |-> "ok", features |-> << Feature(AtDay(2, 12, 0), Num(101580)),
                                        Feature(AtDay(1, 12, 0), Num(101520)) >>],
      \* today's 12Z report only
      [status |-> "ok", features |-> << Feature(AtDay(2, 12, 0), Num(101450)) >>],
      \* today's 12Z report without a pressure, yesterday's with one
      [status |-> "ok", features |-> << Feature(AtDay(2, 12, 0), undefined),
                                        Feature(AtDay(1, 12, 0), Num(101200)) >>] }

GradientStationsOf(revision) ==
    IF revision = "pressureApi" THEN PressureApiStations ELSE {"KSFO", "KOAK", "KSJC"}

GradientInit ==
    /\ gradientRevision \in {"pressureApi", "part_000"}
    /\ clock \in {AtDay(2, 12, 30), AtDay(2, 13, 5)}
    /\ stationHistory \in [GradientStationsOf(gradientRevision) -> StationHistories]
    /\ gradientData = pending

GradientIdle ==
    /\ gradientRevision = "pressureApi"
    /\ clock = AtDay(2, 12, 30)
    /\ stationHistory = [s \in PressureApiStations |->
                            [status |-> "httpError", features |-> <<>>]]
    /\ gradientData = pending

CallFetchPressureGradientData ==
    /\ gradientRevision = "pressureApi"
    /\ gradientData = pending
    /\ gradientData' = fetchPressureGradientData(stationHistory, clock)
    /\ UNCHANGED <<gradientRevision, clock, stationHistory>>

CallFetchPressureGradients ==
    /\ gradientRevision = "part_000"
    /\ gradientData = pending
    /\ gradientData' = fetchPressureGradients(stationHistory, clock)
    /\ UNCHANGED <<gradientRevision, clock, stationHistory>>

(***************************************************************************)
(* The manual-entry screen: src/unnamed/part_004.  Field texts are         *)
(* sequences of characters; numbers are in tenths (of a degree F, of a     *)
(* millibar), so the texts used carry at most one decimal.                 *)
(***************************************************************************)
NaN == [nan |-> TRUE]

\* how many decimal digits text holds from position from on
digitRun(text, from) ==
    IF \A k \in from..Len(text) : IsDigit(text[k]) THEN Len(text) - from + 1
    ELSE (CHOOSE k \in from..Len(text) :
              ~IsDigit(text[k]) /\ \A j \in from..(k - 1) : IsDigit(text[j])) - from

\* parseFloat: an optional sign, digits, an optional point and digits; NaN
\* when no digit is read
parseFloat(text) ==
    LET signed == text # <<>> /\ text[1] \in {"-", "+"}
        start == IF signed THEN 2 ELSE 1
        Fraction(whole) ==
            LET point == start + whole
                frac == IF point <= Len(text) /\ text[point] = "."
                        THEN digitRun(text, point + 1) ELSE 0
                tenths == 10 * parseInt(SubSeq(text, start, point - 1))
                             + (IF frac > 0 THEN DigitValue(text[point + 1]) ELSE 0)
            IN  IF whole = 0 /\ frac = 0 THEN NaN
                ELSE Num(IF signed /\ text[1] = "-" THEN -tenths ELSE tenths)
    IN  ApplyTo(digitRun(text, start), Fraction)

\* parseFloat(text) || 0: NaN and 0 are falsy
parseFloatOrZero(text) ==
    LET OrZero(parsed) == IF parsed = NaN THEN 0 ELSE parsed.num
    IN  ApplyTo(parseFloat(text), OrZero)

RECURSIVE digitsOf(_)
digitsOf(n) ==
    IF n < 10 THEN <<Digits[n + 1]>>
    ELSE digitsOf(n \div 10) \o <<Digits[(n % 10) + 1]>>

\* Number.prototype.toString of a number of tenths
numberToString(tenths) ==
    (IF tenths < 0 THEN <<"-">> ELSE <<>>)
        \o digitsOf(Abs(tenths) \div 10)
        \o (IF Abs(tenths) % 10 = 0 THEN <<>>
            ELSE <<".", Digits[(Abs(tenths) % 10) + 1]>>)

\* Number.prototype.toFixed(1) of a number of tenths
toFixed1(tenths) ==
    (IF tenths < 0 THEN <<"-">> ELSE <<>>)
        \o digitsOf(Abs(tenths) \div 10)
        \o <<".", Digits[(Abs(tenths) % 10) + 1]>>

\* part_004 106-110
getStratusProbability(si) ==
    IF si < 130 THEN "High (90%)"
    ELSE IF si > 220 THEN "Low (20%)"
    ELSE "Moderate"

\* part_004 92-112 and the values the screen prints (lines 245, 279, 323)
renderEntry(fields) ==
    LET maxTempNum == parseFloatOrZero(fields.maxTemp)
        maxDewpointNum == parseFloatOrZero(fields.maxDewpoint)
        acvPressureNum == parseFloatOrZero(fields.acvPressure)
        sfoPressureNum == parseFloatOrZero(fields.sfoPressure)
        smfPressureNum == parseFloatOrZero(fields.smfPressure)
        si == maxTempNum - maxDewpointNum
        offshoreGradient == acvPressureNum - sfoPressureNum
        onshoreGradient == sfoPressureNum - smfPressureNum
    IN  [ si |-> toFixed1(si),
          offshoreGradient |-> toFixed1(offshoreGradient),
          onshoreGradient |-> toFixed1(onshoreGradient),
          stratusProbability |-> getStratusProbability(si) ]

\* what a number input can hand to onChange
TemperatureTexts == {<<>>, <<"7", "2">>, <<"8", "5">>, <<"0">>}
PressureTexts == {<<>>, <<"1", "0", "1", "4", ".", "6">>, <<"1", "0", "1", "2">>}

\* what fetchKSFOTemperatureData may settle with (whole degrees F)
TemperatureResults ==
    {Thrown("NWS API error")}
        \cup [maxTemp : {null, Num(72)}, maxDewpoint : {null, Num(57)}]

\* what fetchAllStationPressureData may settle with
PressureResults ==
    {Thrown("NWS API error")}
        \cup [ acv : [pressure : {null, Num(10146)}],
               sfo : [pressure : {null, Num(10131)}],
               smf : [pressure : {null, Num(10120)}] ]

\* part_004 8-21
EntryInit ==
    /\ entry = [ maxTemp |-> <<>>, maxDewpoint |-> <<>>, acvPressure |-> <<>>,
                 sfoPressure |-> <<>>, smfPressure |-> <<>>,
                 dataStatus |-> "", pressureStatus |-> "" ]
    /\ shown = renderEntry(entry)

EntryIdle == EntryInit

\* part_004 179, 191: onChange of a temperature field
SetTemperature ==
    \E field \in {"maxTemp", "maxDewpoint"}, text \in TemperatureTexts :
        /\ entry' = [entry EXCEPT ![field] = text]
        /\ shown' = renderEntry(entry')

\* part_004 256, 268, 290, 302: onChange of a pressure field
SetPressure ==
    \E field \in {"acvPressure", "sfoPressure", "smfPressure"}, text \in PressureTexts :
        /\ entry' = [entry EXCEPT ![field] = text]
        /\ shown' = renderEntry(entry')

\* part_004 29-53
handleAutoPopulate ==
    \E data \in TemperatureResults :
        /\ entry' =
               IF "thrown" \in DOMAIN data
               THEN [entry EXCEPT !.dataStatus = "error"]
               ELSE [entry EXCEPT
                        !.maxTemp = IF data.maxTemp # null
                                    THEN numberToString(10 * data.maxTemp.num) ELSE @,
                        !.maxDewpoint = IF data.maxDewpoint # null
                                        THEN numberToString(10 * data.maxDewpoint.num)
                                        ELSE @,
                        !.dataStatus = "auto-populated"]
        /\ shown' = renderEntry(entry')

\* part_004 56-89
handleFetchPressure ==
    \E data \in PressureResults :
        /\ entry' =
               IF "thrown" \in DOMAIN data
               THEN [entry EXCEPT !.pressureStatus = "error"]
               ELSE [entry EXCEPT
                        !.acvPressure = IF data.acv.pressure # null
                                        THEN numberToString(data.acv.pressure.num) ELSE @,
                        !.sfoPressure = IF data.sfo.pressure # null
                                        THEN numberToString(data.sfo.pressure.num) ELSE @,
                        !.smfPressure = IF data.smf.pressure # null
                                        THEN numberToString(data.smf.pressure.num) ELSE @,
                        !.pressureStatus = "auto-populated"]
        /\ shown' = renderEntry(entry')

(***************************************************************************)
(* Temperature refreshes: App.tsx 89-91, 187-213, 557-558 (App) and        *)
(* part_003 27-31, 79-132, 208-209 (SFOStratusTool).  A call runs to its   *)
(* await, and continues when its request returns; calls in flight return   *)
(* in any order.                                                           *)
(***************************************************************************)
MaxFetches == 3

\* what fetchKSFOTemperatureData resolves to, or the error it rejects with
RefreshResponses ==
    { Thrown("NWS API error"),
      [maxTemp |-> Num(72), maxDewpoint |-> Num(57), timestamp |-> 1],
      [maxTemp |-> Num(86), maxDewpoint |-> Num(66), timestamp |-> 2],
      [maxTemp |-> null, maxDewpoint |-> null, timestamp |-> 3] }

\* part_003 lines 92-102
stratusProbOf(si) ==
    IF si < 13 THEN 90
    ELSE IF si > 22 THEN 20
    ELSE RoundDiv(90 * 9 - (si - 13) * 70, 9)

\* part_003 lines 89-111
forecastOf(tempData) ==
    [ maxTemp |-> tempData.maxTemp.num,
      maxDewpoint |-> tempData.maxDewpoint.num,
      minRH |-> RoundDiv((tempData.maxDewpoint.num - tempData.maxTemp.num) * 44 + 1000, 10),
      si |-> tempData.maxTemp.num - tempData.maxDewpoint.num,
      stratusProb |-> stratusProbOf(tempData.maxTemp.num - tempData.maxDewpoint.num),
      timestamp |-> tempData.timestamp ]

\* the state after the first render and its effect, which starts the first call
RefreshInit ==
    /\ component \in {"App", "SFOStratusTool"}
    /\ fetches = << [trigger |-> "mount", response |-> pending] >>
    /\ screen = [ temperatureData |-> null, forecast |-> null,
                  currentWeather |-> IF component = "App" THEN null ELSE Num(58),
                  loading |-> TRUE, error |-> null ]

RefreshIdle ==
    /\ component = "none"
    /\ fetches = <<>>
    /\ screen = null

\* the part of a call before its await
Started(trigger) ==
    /\ Len(fetches) < MaxFetches
    /\ fetches' = Append(fetches, [trigger |-> trigger, response |-> pending])
    /\ UNCHANGED component

\* App.tsx 557-558 with 187-192: the button is disabled while isLoadingTemps
loadTemperatureData ==
    /\ component = "App"
    /\ ~screen.loading
    /\ Started("manual")
    /\ screen' = [screen EXCEPT !.loading = TRUE, !.error = null]

\* App.tsx 192-209: the call continues with what its request returned
loadTemperatureDataContinuesClearing ==
    /\ component = "App"
    /\ \E i \in DOMAIN fetches, data \in RefreshResponses :
          /\ fetches[i].response = pending
          /\ fetches' = [fetches EXCEPT ![i].response = data]
          /\ IF "thrown" \in DOMAIN data
             THEN /\ screen' = [screen EXCEPT !.error = Num(data.thrown),
                                              !.temperatureData = null,
                                              !.loading = FALSE]
                  /\ UNCHANGED <<maxTemp, maxDewpoint>>
             ELSE /\ screen' = [screen EXCEPT !.temperatureData = data,
                                              !.loading = FALSE]
                  /\ maxTemp' = IF data.maxTemp # null
                                THEN data.maxTemp.num * 10 ELSE maxTemp
                  /\ maxDewpoint' = IF data.maxDewpoint # null
                                    THEN data.maxDewpoint.num * 10 ELSE maxDewpoint
    /\ UNCHANGED <<component, onPressure, offPressure, baseInversion, wind2k,
                   selectedTrigger, synopticPatterns, burnOff, month,
                   afternoonDewpoint, nEdits>>
    /\ Render

loadTemperatureDataContinues ==
    /\ component = "App"
    /\ \E i \in DOMAIN fetches, data \in RefreshResponses :
          /\ fetches[i].response = pending
          /\ fetches' = [fetches EXCEPT ![i].response = data]
          /\ IF "thrown" \in DOMAIN data
             THEN /\ screen' = [screen EXCEPT !.error = Num(data.thrown),
                                              !.loading = FALSE]
                  /\ UNCHANGED <<maxTemp, maxDewpoint>>
             ELSE /\ screen' = [screen EXCEPT !.temperatureData = data,
                                              !.loading = FALSE]
                  /\ maxTemp' = IF data.maxTemp # null
                                THEN data.maxTemp.num * 10 ELSE maxTemp
                  /\ maxDewpoint' = IF data.maxDewpoint # null
                                    THEN data.maxDewpoint.num * 10 ELSE maxDewpoint
    /\ UNCHANGED <<component, onPressure, offPressure, baseInversion, wind2k,
                   selectedTrigger, synopticPatterns, burnOff, month,
                   afternoonDewpoint, nEdits>>
    /\ Render

\* part_003 79-85: fetchData up to its await
fetchData(trigger) ==
    /\ component = "SFOStratusTool"
    /\ Started(trigger)
    /\ screen' = [screen EXCEPT !.loading = TRUE, !.error = null,
                                !.currentWeather = Num(58)]

\* part_003 208-209: the Refresh button, disabled while loading
ClickRefresh == ~screen.loading /\ fetchData("manual")

\* part_003 130: the 15-minute interval
IntervalElapses == fetchData("timer")

\* part_003 87-123: the call continues with what its request returned
fetchDataContinues ==
    /\ component = "SFOStratusTool"
    /\ \E i \in DOMAIN fetches, tempData \in RefreshResponses :
          /\ fetches[i].response = pending
          /\ fetches' = [fetches EXCEPT ![i].response = tempData]
          /\ screen' =
                IF "thrown" \in DOMAIN tempData
                THEN [screen EXCEPT !.error = Num(tempData.thrown), !.loading = FALSE]
                ELSE [screen EXCEPT
                        !.temperatureData = tempData,
                        !.forecast = IF tempData.maxTemp # null
                                        /\ tempData.maxDewpoint # null
                                     THEN forecastOf(tempData) ELSE @,
                        !.loading = FALSE]
    /\ UNCHANGED component

(***************************************************************************)
(* Single evaluations of the forecast model's functions (App.tsx 227-350,  *)
(* 380-460): the arguments are drawn at the start, the call returns once.  *)
(***************************************************************************)
\* SI from 8.0 to 26.0 F in tenths; offshore gradients from -7.0 to 4.0 mb in
\* tenths; afternoon dewpoints from 0.0 to 44.9 F in tenths; base inversions from
\* 500 to 1199 ft
SIValues == 80..260
OffValues == -70..40
DewpointValues == 0..449
InversionValues == 500..1199

\* what the service may hold for a station around 12Z of day 2: reports half an
\* hour before and after, ten minutes after, one without a pressure on the hour,
\* and one an hour and a half after, in any order
PressureFeatures ==
    { Feature(AtDay(2, 11, 30), Num(101320)),
      Feature(AtDay(2, 12, 30), Num(101450)),
      Feature(AtDay(2, 12, 10), Num(101580)),
      Feature(AtDay(2, 12, 0), undefined),
      Feature(AtDay(2, 13, 30), Num(101200)) }
\* what fetchStationPressure of pressureApi.ts may have collected for a station:
\* 6-hourly reports of today and yesterday and an 11Z report, in any order
ApiObservation(ts, mb) == [timestamp |-> ts, pressure |-> mb, stationId |-> "SFO"]
ApiObservations ==
    { ApiObservation(AtDay(2, 12, 0), 10132), ApiObservation(AtDay(2, 6, 0), 10145),
      ApiObservation(AtDay(1, 18, 0), 10158), ApiObservation(AtDay(1, 12, 0), 10120),
      ApiObservation(AtDay(2, 11, 0), 10127) }
ApiObservationLists == ListsUpTo(ApiObservations, 3)

PressureResponses ==
    {[status |-> "httpError", features |-> <<>>]}
        \cup {[status |-> "ok", features |-> l] : l \in ListsUpTo(PressureFeatures, 3)}

\* getSITiming(si) at line 356; the offshore factor of lines 414-422 for a month
\* and a gradient that enter the block (off > offMax - 0.5); the dewpoint factor
\* of lines 381-388 for a dewpoint that enters the block (below 45 F); the onset
\* delay of lines 445-455 for an inversion that enters the block (below 1200 ft)
\* and fetchStationPressure of part_000 81-130 for a station, a target time and
\* the response of its request
\* and getMostRecent6Hourly and get24HourAgo6Hourly of pressureApi.ts 71-97 for
\* the observations of a station (and the time of the call)
Calls ==
    {[fn |-> "getSITiming", si |-> s] : s \in SIValues}
        \cup {c \in [fn : {"offFactor"}, month : MonthValues, off : OffValues] :
                 c.off > monthlyThresholds(c.month).offMax - 5}
        \cup {[fn |-> "dewpointFactor", d |-> d] : d \in DewpointValues}
        \cup {[fn |-> "delayHours", bi |-> bi] : bi \in InversionValues}
        \cup [fn : {"fetchStationPressure"}, stationId : {"KSFO"},
              targetTime : {AtDay(2, 12, 0)}, response : PressureResponses]
        \cup [fn : {"getMostRecent6Hourly"}, observations : ApiObservationLists]
        \cup [fn : {"get24HourAgo6Hourly"}, observations : ApiObservationLists,
              now : {AtDay(2, 12, 30), AtDay(2, 13, 5)}]

CallInit ==
    /\ call \in Calls
    /\ returned = pending

CallIdle ==
    /\ call = [fn |-> "none"]
    /\ returned = pending

CallGetSITiming ==
    /\ call.fn = "getSITiming"
    /\ returned = pending
    /\ returned' = getSITiming(call.si)
    /\ UNCHANGED call

CallOffFactor ==
    /\ call.fn = "offFactor"
    /\ returned = pending
    /\ returned' = Num(offFactor(call.off, monthlyThresholds(call.month).offMax))
    /\ UNCHANGED call

CallDewpointFactor ==
    /\ call.fn = "dewpointFactor"
    /\ returned = pending
    /\ returned' = Num(dewpointFactor(call.d))
    /\ UNCHANGED call

CallDelayHours ==
    /\ call.fn = "delayHours"
    /\ returned = pending
    /\ returned' = Num(delayHours(call.bi))
    /\ UNCHANGED call

CallFetchStationPressure ==
    /\ call.fn = "fetchStationPressure"
    /\ returned = pending
    /\ returned' = fetchStationPressure000(call.stationId, call.targetTime, call.response)
    /\ UNCHANGED call

CallGetMostRecent6Hourly ==
    /\ call.fn = "getMostRecent6Hourly"
    /\ returned = pending
    /\ returned' = getMostRecent6Hourly(call.observations)
    /\ UNCHANGED call

CallGet24HourAgo6Hourly ==
    /\ call.fn = "get24HourAgo6Hourly"
    /\ returned = pending
    /\ returned' = get24HourAgo6Hourly(call.observations, call.now)
    /\ UNCHANGED call

(***************************************************************************)
(* Specifications                                                          *)
(***************************************************************************)
Init == AppInit /\ DecodeIdle /\ TempIdle /\ StationIdle /\ GradientIdle /\ EntryIdle /\ CallIdle
    /\ RefreshIdle
RestApp == UNCHANGED <<decodeVars, tempVars, stationVars, gradientVars, entryVars, callVars,
                       refreshVars>>
Next ==
    \/ ChangeMaxTemp /\ RestApp
    \/ ChangeMaxDewpoint /\ RestApp
    \/ ChangeOnPressure /\ RestApp
    \/ ChangeOffPressure /\ RestApp
    \/ ChangeBaseInversion /\ RestApp
    \/ ChangeWind2k /\ RestApp
    \/ ChangeTrigger /\ RestApp
    \/ TogglePattern /\ RestApp
    \/ ChangeBurnOff /\ RestApp
    \/ ChangeMonth /\ RestApp
    \/ ChangeAfternoonDewpoint /\ RestApp
Spec == Init /\ [][Next]_vars

InitDecode == DecodeInit /\ AppInit /\ TempIdle /\ StationIdle /\ GradientIdle /\ EntryIdle /\ CallIdle
    /\ RefreshIdle
RestDecode == UNCHANGED <<appVars, tempVars, stationVars, gradientVars, entryVars, callVars,
                          refreshVars>>
NextDecode ==
    \/ CallParseMaxFromRemarks /\ RestDecode
    \/ CallParseSLPFromRemarks /\ RestDecode
    \/ CallParseSLPFromRemarks001 /\ RestDecode
SpecDecode == InitDecode /\ [][NextDecode]_vars

InitTemp == TempInit /\ AppInit /\ DecodeIdle /\ StationIdle /\ GradientIdle /\ EntryIdle /\ CallIdle
    /\ RefreshIdle
RestTemp == UNCHANGED <<appVars, decodeVars, stationVars, gradientVars, entryVars, callVars,
                        refreshVars>>
NextTemp ==
    \/ CallFetchKSFOTemperatureData19to23Z /\ RestTemp
    \/ CallFetchKSFOTemperatureData20to00Z /\ RestTemp
    \/ CallFetchKSFOTemperatureData20to24Z /\ RestTemp
SpecTemp == InitTemp /\ [][NextTemp]_vars

InitStations == StationInit /\ AppInit /\ DecodeIdle /\ TempIdle /\ GradientIdle /\ EntryIdle /\ CallIdle
    /\ RefreshIdle
RestStations == UNCHANGED <<appVars, decodeVars, tempVars, gradientVars, entryVars, callVars,
                            refreshVars>>
NextStations ==
    \/ StationRespondsNws /\ RestStations
    \/ StationResponds001 /\ RestStations
SpecStations == InitStations /\ [][NextStations]_vars

InitGradient == GradientInit /\ AppInit /\ DecodeIdle /\ TempIdle /\ StationIdle /\ EntryIdle /\ CallIdle
    /\ RefreshIdle
RestGradient == UNCHANGED <<appVars, decodeVars, tempVars, stationVars, entryVars, callVars,
                            refreshVars>>
NextGradient ==
    \/ CallFetchPressureGradientData /\ RestGradient
    \/ CallFetchPressureGradients /\ RestGradient
SpecGradient == InitGradient /\ [][NextGradient]_vars

InitEntry == EntryInit /\ AppInit /\ DecodeIdle /\ TempIdle /\ StationIdle /\ GradientIdle /\ CallIdle
    /\ RefreshIdle
RestEntry == UNCHANGED <<appVars, decodeVars, tempVars, stationVars, gradientVars, callVars,
                         refreshVars>>
NextEntry ==
    \/ SetTemperature /\ RestEntry
    \/ SetPressure /\ RestEntry
    \/ handleAutoPopulate /\ RestEntry
    \/ handleFetchPressure /\ RestEntry
SpecEntry == InitEntry /\ [][NextEntry]_vars

InitCalls == CallInit /\ AppInit /\ DecodeIdle /\ TempIdle /\ StationIdle /\ GradientIdle /\ EntryIdle
    /\ RefreshIdle
RestCalls == UNCHANGED <<appVars, decodeVars, tempVars, stationVars, gradientVars, entryVars,
                         refreshVars>>
NextCalls ==
    \/ CallGetSITiming /\ RestCalls
    \/ CallOffFactor /\ RestCalls
    \/ CallDewpointFactor /\ RestCalls
    \/ CallDelayHours /\ RestCalls
    \/ CallFetchStationPressure /\ RestCalls
    \/ CallGetMostRecent6Hourly /\ RestCalls
    \/ CallGet24HourAgo6Hourly /\ RestCalls
SpecCalls == InitCalls /\ [][NextCalls]_vars

InitRefresh == RefreshInit /\ AppInit /\ DecodeIdle /\ TempIdle /\ StationIdle /\ GradientIdle /\ EntryIdle /\ CallIdle
RestRefresh == UNCHANGED <<decodeVars, tempVars, stationVars, gradientVars, entryVars,
                           callVars>>
NextRefresh ==
    \/ loadTemperatureData /\ UNCHANGED appVars /\ RestRefresh
    \/ loadTemperatureDataContinues /\ RestRefresh
    \/ ClickRefresh /\ UNCHANGED appVars /\ RestRefresh
    \/ IntervalElapses /\ UNCHANGED appVars /\ RestRefresh
    \/ fetchDataContinues /\ UNCHANGED appVars /\ RestRefresh
SpecRefresh == InitRefresh /\ [][NextRefresh]_vars

(***************************************************************************)
(* Properties of the forecast model (Spec)                                 *)
(***************************************************************************)
ResultFields == {"onsetWindow", "endWindow", "burnOffHours"}

\* C1: whenever baseInversion >= 500, the probability of the rendered prediction is
\* an integer between 5 and 95 inclusive, whatever the other inputs are.
C1_ProbabilityClamped ==
    baseInversion >= 500 => prediction.probability \in 5..95

\* the lower limit acts: a dry afternoon, a weak onshore gradient and a low inversion
\* together push the running probability below 5
C1_Witness ==
    /\ baseInversion \in 500..999
    /\ afternoonDewpoint < 420
    /\ calculateON < getMonthlyThresholds.onMin
    /\ prediction.probability = 5

\* C2: whenever baseInversion < 500 the prediction has probability exactly 5,
\* confidence High and exactly one warning, whatever the other inputs are; with
\* baseInversion = 500 the early exit is not taken (the staged result is returned).
C2_EarlyExit ==
    /\ baseInversion < 500 =>
           /\ prediction.probability = 5
           /\ prediction.confidence = "High"
           /\ Len(prediction.warnings) = 1
           /\ prediction.startTime = "No Event"
    /\ baseInversion = 500 =>
           /\ "startTime" \notin DOMAIN prediction
           /\ ResultFields \subseteq DOMAIN prediction

\* the early exit is taken with a trigger selected and another input off its default
C2_Witness ==
    /\ baseInversion = 499
    /\ hasTrigger
    /\ nEdits = 3
    /\ prediction.probability = 5

\* C3: every prediction, the early-exit one included, carries onsetWindow, endWindow
\* and burnOffHours, and the results panel's read of onsetWindow.mostProbable never
\* raises.
C3_PanelReadDefined ==
    /\ ResultFields \subseteq DOMAIN prediction
    /\ panel # "TypeError"

\* the conditions of the four stages that reduce the probability and warn
DewpointPenalty == afternoonDewpoint < 450
OnshorePenalty == calculateON < getMonthlyThresholds.onMin + 5
OffshorePenalty == calculateOFF > getMonthlyThresholds.offMax - 5
InversionPenalty == baseInversion < 1200
PenaltiesFired ==
    {name \in {"dewpoint", "onshore", "offshore", "inversion"} :
        \/ name = "dewpoint" /\ DewpointPenalty
        \/ name = "onshore" /\ OnshorePenalty
        \/ name = "offshore" /\ OffshorePenalty
        \/ name = "inversion" /\ InversionPenalty}

\* C14: for baseInversion >= 500 the warnings of the prediction are non-empty only
\* when at least one penalty stage fired (afternoon dewpoint < 45 F, onshore
\* gradient within or below the monthly buffer, offshore gradient within or above
\* the monthly buffer, inversion < 1200 ft); with none fired the list is empty.
C14_WarningsOnlyFromPenalties ==
    baseInversion >= 500 =>
        /\ prediction.warnings # <<>> => PenaltiesFired # {}
        /\ PenaltiesFired = {} => prediction.warnings = <<>>

\* both cases happen while the wind stage, a trigger or a pattern acts: a
\* prediction with the inversion warning alone, reached from one without warnings
C14_Witness ==
    /\ baseInversion \in 500..1199
    /\ PenaltiesFired = {"inversion"}
    /\ Len(prediction.warnings) = 1
    /\ wind2k.direction = 270 /\ wind2k.speed > 10

HighConfidenceCondition ==
    \/ baseInversion < 500
    \/ afternoonDewpoint < 420
    \/ hasTrigger
    \/ calculateSI < 100
    \/ calculateSI > 220

\* C17: the confidence of the prediction is High exactly when baseInversion < 500,
\* or the afternoon dewpoint is below 42 F, or a trigger is selected, or SI < 10,
\* or SI > 22; otherwise it is Medium. It is never Low, and a High set by an
\* earlier stage is still High in the result.
C17_ConfidenceHighExactlyWhen ==
    /\ prediction.confidence \in {"High", "Medium"}
    /\ prediction.confidence = "High" <=> HighConfidenceCondition

\* a High set by the dewpoint stage alone survives the later stages
C17_Witness ==
    /\ baseInversion >= 500
    /\ afternoonDewpoint < 420
    /\ ~hasTrigger
    /\ calculateSI \in 100..220
    /\ prediction.confidence = "High"

\* C18: with a trigger selected and baseInversion >= 500, the most probable onset
\* of the prediction is not later than 03Z, whatever the inversion delay, the
\* offshore trend, the pattern shifts and the wind are, and its confidence is
\* High.
C18_TriggerCapsOnset ==
    (hasTrigger /\ baseInversion >= 500) =>
        /\ prediction.onsetWindow.mostProbable <= 3 * HourUnit
        /\ prediction.confidence = "High"

\* the cap acts: a trigger with a low inversion, whose delay alone puts the onset
\* of the default inputs after 03Z
C18_Witness ==
    /\ hasTrigger
    /\ baseInversion \in 500..1199
    /\ getSITiming(calculateSI).start * HourUnit + delayHours(baseInversion) > 3 * HourUnit
    /\ prediction.onsetWindow.mostProbable <= 3 * HourUnit

HalfHours(t) == t % (HourUnit \div 2) = 0

EndWindowExact ==
    /\ prediction.endWindow.earliest = prediction.endWindow.mostProbable - HourUnit \div 2
    /\ prediction.endWindow.latest = prediction.endWindow.mostProbable + HourUnit \div 2
    /\ HalfHours(prediction.endWindow.mostProbable)
    /\ HalfHours(prediction.onsetWindow.mostProbable)

FlagsSet == {n \in PatternNames : synopticPatterns[n]}
Interactions ==
    {pair \in {<<"upperRidge", "thermalLow">>, <<"upperTrough", "thermalLow">>} :
        synopticPatterns[pair[1]] /\ synopticPatterns[pair[2]]}

\* C20: the effects list of the prediction has as many entries as there are
\* pattern flags set.
C20_OneEffectPerFlag ==
    Len(prediction.synopticEffects) = Cardinality(FlagsSet)

\* C20 as amended: the effects list has one entry for each pattern flag set and
\* one more for each of the two interactions (upper ridge with thermal low, upper
\* trough with thermal low) whose flags are both set.
C20_EffectsPerFlagAndInteraction ==
    Len(prediction.synopticEffects) = Cardinality(FlagsSet) + Cardinality(Interactions)

\* a thermal low with an upper ridge and a surface high: three flags, four lines
C20_Witness ==
    /\ FlagsSet = {"thermalLow", "upperRidge", "surfaceHigh"}
    /\ Len(prediction.synopticEffects) = 4

\* C28: for every result other than the early exit, neither the most probable
\* onset nor the earliest onset is before 01Z.
C28_OnsetNotBefore01Z ==
    baseInversion >= 500 =>
        /\ prediction.onsetWindow.mostProbable >= HourUnit
        /\ prediction.onsetWindow.earliest >= HourUnit

\* the patterns pull the onset earlier, the wind is not onshore, and the onset
\* stays at 01Z
C28_Witness ==
    /\ baseInversion >= 500
    /\ getSynopticPatternEffects.timingAdjustment < 0
    /\ ~(wind2k.direction >= 240 /\ wind2k.direction <= 300 /\ wind2k.speed > 10)
    /\ prediction.onsetWindow.mostProbable = HourUnit

(***************************************************************************)
(* Properties of the remarks decoder (SpecDecode)                          *)
(***************************************************************************)
RMK == <<"R", "M", "K">>

\* the sea-level pressure, in tenths of a millibar, that the digits xxx stand for
SLPOf(xxx) == IF xxx < 500 THEN 10000 + xxx ELSE 9000 + xxx

\* C8: for every three-digit value xxx of a group SLPxxx in the remarks, each
\* parseSLPFromRemarks returns 1000 + xxx/10 mb when xxx < 500 and 900 + xxx/10 mb
\* when xxx >= 500.
C8_SLPDecode ==
    (report # null /\ report.hasRMK /\ report.slp # null) =>
        /\ decoded.slp # pending => decoded.slp = Num(SLPOf(report.slp.num))
        /\ decoded.slp001 # pending => decoded.slp001 = Num(SLPOf(report.slp.num))

\* f is Math.round of the Fahrenheit value of sign x tenths / 10 degrees Celsius:
\* f - 1/2 <= c * 9/5 + 32 < f + 1/2, in fiftieths of a degree
IsRoundedFahrenheit(f, sign, tenths) ==
    LET fiftieths == 9 * (IF sign = 1 THEN -tenths ELSE tenths) + 1600
    IN  50 * f - fiftieths \in -24..25

\* C9: for every sign digit and every three-digit tenths value, each half of the
\* temperature/dewpoint group of the remarks decodes to round(c * 9/5 + 32) degrees F
\* with c = sign x digits / 10; sign 0 digits 139 gives 57 and sign 1 digits 083
\* gives 17.
C9_TGroupDecode ==
    (report # null /\ report.hasRMK /\ report.temps # null /\ decoded.max # pending) =>
        /\ decoded.max.maxTemp # null
        /\ IsRoundedFahrenheit(decoded.max.maxTemp.num,
                               report.temps.tSign, report.temps.tTenths)
        /\ decoded.max.maxDewpoint # null
        /\ IsRoundedFahrenheit(decoded.max.maxDewpoint.num,
                               report.temps.dSign, report.temps.dTenths)
        /\ (report.temps.tSign = 0 /\ report.temps.tTenths = 139)
               => decoded.max.maxTemp = Num(57)
        /\ (report.temps.dSign = 1 /\ report.temps.dTenths = 83)
               => decoded.max.maxDewpoint = Num(17)

\* a negative half-degree tie has been decoded: -2.5 C is 27.5 F, rounded up to 28
C9_Witness ==
    /\ report # null /\ report.hasRMK /\ report.temps # null
    /\ report.temps.tSign = 1 /\ report.temps.tTenths = 25
    /\ decoded.max # pending
    /\ decoded.max.maxTemp = Num(28)
    /\ decoded.max.maxDewpoint = Num(17)

\* C10: for a raw text without the marker RMK every decoded field is absent:
\* temperature, dewpoint and sea-level pressure, whatever else the text contains.
C10_NoRemarksNoFields ==
    indexOf(rawMetar, RMK) = 0 =>
        /\ decoded.max # pending =>
               decoded.max = [maxTemp |-> null, maxDewpoint |-> null]
        /\ decoded.slp # pending => decoded.slp = null
        /\ decoded.slp001 # pending => decoded.slp001 = null

(***************************************************************************)
(* Properties of the KSFO temperature window (SpecTemp)                    *)
(***************************************************************************)
\* the observation carries a temperature: a remarks group or a primary value
CarriesTemperature(obs) ==
    \/ obs.report # null /\ obs.report.hasRMK /\ obs.report.temps # null
    \/ obs.temperature # undefined

CarriesDewpoint(obs) ==
    \/ obs.report # null /\ obs.report.hasRMK /\ obs.report.temps # null
    \/ obs.dewpoint # undefined

\* some observation accepted by InWindow carries a temperature of f degrees F
ObservedTemperature(f, InWindow(_)) ==
    \E i \in 1..Len(ksfoResponse.features) :
        LET obs == ksfoResponse.features[i]
        IN  /\ InWindow(obs)
            /\ \/ /\ obs.report # null /\ obs.report.hasRMK /\ obs.report.temps # null
                  /\ IsRoundedFahrenheit(f, obs.report.temps.tSign, obs.report.temps.tTenths)
               \/ /\ obs.temperature # undefined
                  /\ 50 * f - (9 * obs.temperature.num + 1600) \in -24..25

ObservedDewpoint(f, InWindow(_)) ==
    \E i \in 1..Len(ksfoResponse.features) :
        LET obs == ksfoResponse.features[i]
        IN  /\ InWindow(obs)
            /\ \/ /\ obs.report # null /\ obs.report.hasRMK /\ obs.report.temps # null
                  /\ IsRoundedFahrenheit(f, obs.report.temps.dSign, obs.report.temps.dTenths)
               \/ /\ obs.dewpoint # undefined
                  /\ 50 * f - (9 * obs.dewpoint.num + 1600) \in -24..25

NoneCarries(Carries(_), InWindow(_)) ==
    \A i \in 1..Len(ksfoResponse.features) :
        InWindow(ksfoResponse.features[i]) => ~Carries(ksfoResponse.features[i])

\* what C7 asks of one returned result, for the window test of its revision
NullExtrema(result, InWindow(_)) ==
    /\ "thrown" \notin DOMAIN result
    /\ NoneCarries(CarriesTemperature, InWindow) => result.maxTemp = null
    /\ NoneCarries(CarriesDewpoint, InWindow) => result.maxDewpoint = null
    /\ result.maxTemp # Num(-999)
    /\ result.maxDewpoint # Num(-999)
    /\ result.maxTemp = Num(0) => ObservedTemperature(0, InWindow)
    /\ result.maxDewpoint = Num(0) => ObservedDewpoint(0, InWindow)

Hour20to23(obs) == getUTCHours(obs.timestamp) \in 20..23
In20to24Z == SelectSeq(ksfoResponse.features, Hour20to23)

\* C22: the 20-24Z window test accepts an observation only when the UTC hour of
\* its timestamp is 20, 21, 22 or 23: what fetchKSFOTemperatureData returns for a
\* list is what it returns for the observations of those hours alone, an
\* observation at any other hour contributing nothing.
C22_Only20to23Z ==
    (ksfoResponse.ok /\ ksfoResponse.features # <<>>
        /\ temperatureData.z20to24 # pending) =>
        temperatureData.z20to24 =
            IF In20to24Z = <<>>
            THEN [maxTemp |-> null, maxDewpoint |-> null, timestamp |-> [now |-> TRUE]]
            ELSE fetchKSFOTemperatureData20to24Z([ok |-> TRUE, features |-> In20to24Z])

\* the observations of the fetched list with UTC hour 19..23 and UTC minute 53..59
HourlyIn19to23Z(obs) ==
    /\ getUTCHours(obs.timestamp) \in 19..23
    /\ getUTCMinutes(obs.timestamp) \in 53..59
HourlyObservations == SelectSeq(ksfoResponse.features, HourlyIn19to23Z)

\* the result covers the primary values and the timestamp of obs
Covers(result, obs) ==
    /\ result.timestamp # [now |-> TRUE]
    /\ result.timestamp.num >= obs.timestamp
    /\ obs.temperature # undefined =>
           /\ result.maxTemp # null
           /\ result.maxTemp.num >= celsiusToFahrenheit(obs.temperature.num)
    /\ obs.dewpoint # undefined =>
           /\ result.maxDewpoint # null
           /\ result.maxDewpoint.num >= celsiusToFahrenheit(obs.dewpoint.num)

\* C23: in the hourly-only variant of fetchKSFOTemperatureData an observation
\* contributes to maxTemp, maxDewpoint and the reported timestamp if and only if
\* its UTC hour is in 19..23 and its UTC minute in 53..59: the result is the one
\* for those observations alone, and it covers each of them.
C23_HourlyOnly ==
    (ksfoResponse.ok /\ ksfoResponse.features # <<>>
        /\ temperatureData.z19to23 # pending) =>
        /\ temperatureData.z19to23 =
               IF HourlyObservations = <<>>
               THEN [maxTemp |-> null, maxDewpoint |-> null,
                     timestamp |-> [now |-> TRUE]]
               ELSE fetchKSFOTemperatureData19to23Z(
                        [ok |-> TRUE, features |-> HourlyObservations])
        /\ \A i \in 1..Len(HourlyObservations) :
               Covers(temperatureData.z19to23, HourlyObservations[i])

\* the report of 21:55Z (0 F) is accepted and the later, warmer report of 21:30Z
\* (68 F) is rejected
C23_Witness ==
    /\ ksfoResponse.ok
    /\ \E i, j \in 1..Len(ksfoResponse.features) :
           /\ getUTCMinutes(ksfoResponse.features[i].timestamp) = 55
           /\ getUTCMinutes(ksfoResponse.features[j].timestamp) = 30
           /\ ksfoResponse.features[j].temperature = Num(200)
    /\ temperatureData.z19to23 # pending
    /\ temperatureData.z19to23.maxTemp = Num(0)
    /\ temperatureData.z19to23.timestamp = Num(At(21, 55))

\* the values a list of observations carries, in degrees F: decoded from the
\* remarks group, and converted from the primary fields
RemarksTemps(obsList) ==
    {parseMaxFromRemarks(obsList[i].rawMessage).maxTemp.num :
        i \in {k \in 1..Len(obsList) :
                  parseMaxFromRemarks(obsList[k].rawMessage).maxTemp # null}}
RemarksDewpoints(obsList) ==
    {parseMaxFromRemarks(obsList[i].rawMessage).maxDewpoint.num :
        i \in {k \in 1..Len(obsList) :
                  parseMaxFromRemarks(obsList[k].rawMessage).maxDewpoint # null}}
PrimaryTemps(obsList) ==
    {celsiusToFahrenheit(obsList[i].temperature.num) :
        i \in {k \in 1..Len(obsList) : obsList[k].temperature # undefined}}
PrimaryDewpoints(obsList) ==
    {celsiusToFahrenheit(obsList[i].dewpoint.num) :
        i \in {k \in 1..Len(obsList) : obsList[k].dewpoint # undefined}}

Largest(values) ==
    IF values = {} THEN null
    ELSE Num(CHOOSE x \in values : \A y \in values : y <= x)

\* the hourly variant reduces the remarks and the primary values together
TrueMaxima19to23Z(result, obsList) ==
    /\ result.maxTemp = Largest(RemarksTemps(obsList) \cup PrimaryTemps(obsList))
    /\ result.maxDewpoint =
           Largest(RemarksDewpoints(obsList) \cup PrimaryDewpoints(obsList))

\* the other variants reduce the remarks temperatures, or the primary ones when
\* no remarks carry any, and the primary dewpoints
TrueMaximaRemarksFirst(result, obsList) ==
    /\ result.maxTemp = IF RemarksTemps(obsList) # {}
                        THEN Largest(RemarksTemps(obsList))
                        ELSE Largest(PrimaryTemps(obsList))
    /\ result.maxDewpoint = Largest(PrimaryDewpoints(obsList))

AcceptedBy20to24Z(obs) == isIn20to24ZWindow(obs.timestamp)

\* C24: the reduction is a true running maximum: for every list of in-window
\* observations, values of 0 F and below included, the returned maxTemp is the
\* largest decoded temperature among them and maxDewpoint the largest dewpoint.
C24_TrueRunningMaximum ==
    (ksfoResponse.ok /\ ksfoResponse.features # <<>>) =>
        /\ temperatureData.z19to23 # pending =>
               TrueMaxima19to23Z(temperatureData.z19to23,
                                 SelectSeq(ksfoResponse.features, relevant19to23Z))
        /\ temperatureData.z20to00 # pending =>
               TrueMaximaRemarksFirst(temperatureData.z20to00,
                                      SelectSeq(ksfoResponse.features, relevant20to00Z))
        /\ temperatureData.z20to24 # pending =>
               TrueMaximaRemarksFirst(temperatureData.z20to24,
                                      SelectSeq(ksfoResponse.features, AcceptedBy20to24Z))

(***************************************************************************)
(* Properties of the three-station pressure fetch                          *)
(***************************************************************************)
IsThrown(value) == "thrown" \in DOMAIN value

\* the fetch for station s failed: a network or HTTP error, an empty
\* observation list or, where the code asks for one, no 6-hourly observation
StationFetchFailed(s) ==
    \/ stationResponse[s].status # "ok"
    \/ stationResponse[s].features = <<>>
    \/ /\ pressureRevision = "nwsApi"
       /\ SelectSeq(stationResponse[s].features, is6HourlyObs) = <<>>

\* the pressure the station's own fetch decodes
OwnPressure(s) ==
    IF pressureRevision = "nwsApi"
    THEN fetchStationPressureData(s, stationResponse[s]).pressure
    ELSE fetchStation001(s, stationResponse[s]).pressure

\* the pressure the overall call carries for station s
ReturnedPressure(s) ==
    IF pressureRevision = "nwsApi"
    THEN CASE s = "KACV" -> pressureCall.acv.pressure
           [] s = "KSFO" -> pressureCall.sfo.pressure
           [] OTHER -> pressureCall.smf.pressure
    ELSE CASE s = <<"A", "C", "V">> -> pressureCall.acv
           [] s = <<"K", "S", "F", "O">> -> pressureCall.sfo
           [] OTHER -> pressureCall.smf

FailedStations == {s \in StationsOf(pressureRevision) :
                      stationResponse[s] # pending /\ StationFetchFailed(s)}

AllStationsAnswered == \A s \in StationsOf(pressureRevision) : stationResponse[s] # pending

\* C4: in the three-station pressure fetch the call fails as a whole only when
\* every station's fetch has failed, and when exactly one station's fetch
\* fails while the other two succeed it completes with the two decoded
\* pressures and an absent value for the failed station only.
C4_OneStationFailureTolerated ==
    /\ IsThrown(pressureCall) => FailedStations = StationsOf(pressureRevision)
    /\ (AllStationsAnswered /\ Cardinality(FailedStations) = 1) =>
           /\ pressureCall # pending
           /\ \A s \in StationsOf(pressureRevision) :
                  ReturnedPressure(s) = IF s \in FailedStations THEN null
                                        ELSE OwnPressure(s)

(***************************************************************************)
(* Properties of the gradient trends                                       *)
(***************************************************************************)
\* the instants the two samples of a station are taken for
NowTarget == IF gradientRevision = "pressureApi" THEN clock
             ELSE getMostRecent6HourlyTime(clock)
PastTarget == NowTarget - 24 * 60

\* the observations of station s that can serve as a sample: they carry a
\* pressure and, for pressureApi.ts, are 6-hourly reports
SampleObservations(s) ==
    IF stationHistory[s].status # "ok" THEN {}
    ELSE {f \in {stationHistory[s].features[i] :
                    i \in 1..Len(stationHistory[s].features)} :
             /\ HasPressure(f)
             /\ gradientRevision = "pressureApi" => is6HourlyPressureObs(f)}

\* how far from its target instant a sample may lie: one hour in part_000
\* (isNearTargetTime), two hours for pressureApi.ts
SampleTolerance == IF gradientRevision = "pressureApi" THEN 120 ELSE 60

\* the current sample of a station: pressureApi.ts takes the most recent
\* 6-hourly report, part_000 the report nearest the latest synoptic hour
NowSamples(s) ==
    IF gradientRevision = "pressureApi" THEN SampleObservations(s)
    ELSE {f \in SampleObservations(s) : Abs(f.timestamp - NowTarget) <= SampleTolerance}

PastSamples(s) ==
    {f \in SampleObservations(s) : Abs(f.timestamp - PastTarget) <= SampleTolerance}

AllSixSamples ==
    \A s \in GradientStationsOf(gradientRevision) :
        NowSamples(s) # {} /\ PastSamples(s) # {}

\* the pressure, in tenths of a millibar, of the sample of s nearest target
SamplePressure(samples, target) ==
    RoundDiv((CHOOSE f \in samples :
                  \A g \in samples :
                      Abs(f.timestamp - target) <= Abs(g.timestamp - target)
             ).barometricPressure.num, 10)

PastPressure(s) == SamplePressure(PastSamples(s), PastTarget)

PastOffshore == IF gradientRevision = "pressureApi"
                THEN PastPressure("ACV") - PastPressure("SFO")
                ELSE PastPressure("KSFO") - PastPressure("KOAK")
PastOnshore == IF gradientRevision = "pressureApi"
               THEN PastPressure("SFO") - PastPressure("SMF")
               ELSE PastPressure("KSJC") - PastPressure("KSFO")

\* what the call returned, absent or a number
OffshoreTrend == IF gradientRevision = "pressureApi"
                 THEN Num(gradientData.trend24hOffshore)
                 ELSE gradientData.offshore24hrTrend
OnshoreTrend == IF gradientRevision = "pressureApi"
                THEN Num(gradientData.trend24hOnshore)
                ELSE gradientData.onshore24hrTrend
OffshoreNow == IF gradientRevision = "pressureApi"
               THEN gradientData.currentOffshore
               ELSE gradientData.offshoreGradient.num
OnshoreNow == IF gradientRevision = "pressureApi"
              THEN gradientData.currentOnshore
              ELSE gradientData.onshoreGradient.num

GradientsReturned == gradientData # pending /\ ~IsThrown(gradientData)

\* C5: a returned result carries the 24-hour offshore and onshore trends
\* exactly when all six samples (three stations, now and 24 hours ago) are
\* present, each then being the current gradient minus the past gradient; with
\* a past sample missing the trends are absent, not 0.
C5_TrendsExactlyWithSixSamples ==
    GradientsReturned =>
        /\ (OffshoreTrend # null) <=> AllSixSamples
        /\ (OnshoreTrend # null) <=> AllSixSamples
        /\ AllSixSamples =>
               /\ OffshoreTrend = Num(OffshoreNow - PastOffshore)
               /\ OnshoreTrend = Num(OnshoreNow - PastOnshore)

(***************************************************************************)
(* Properties of the manual-entry screen                                   *)
(***************************************************************************)
\* the fields each printed value is computed from
InputsOf(value) ==
    CASE value = "si" -> {"maxTemp", "maxDewpoint"}
      [] value = "stratusProbability" -> {"maxTemp", "maxDewpoint"}
      [] value = "offshoreGradient" -> {"acvPressure", "sfoPressure"}
      [] value = "onshoreGradient" -> {"sfoPressure", "smfPressure"}

\* the entry with 0 typed into every empty field among fields
ZeroSubstituted(fields) ==
    [f \in DOMAIN entry |-> IF f \in fields /\ entry[f] = <<>> THEN <<"0">>
                            ELSE entry[f]]

\* C6: while maximum temperature, maximum dewpoint or a station pressure is
\* absent, what the screen prints for the Stratus Index, the gradients and the
\* probability category is not what it prints with 0 in place of the absent
\* input.
C6_AbsentInputNotZero ==
    \A value \in DOMAIN shown :
        (\E f \in InputsOf(value) : entry[f] = <<>>) =>
            shown[value] # renderEntry(ZeroSubstituted(InputsOf(value)))[value]

\* the three stations by role: the station both gradients share is the bay
\* station (SFO); the other end of the offshore gradient is the upwind coastal
\* station, the other end of the onshore gradient the inland station
BayStation == IF gradientRevision = "pressureApi" THEN "SFO" ELSE "KSFO"
UpwindCoastalStation == IF gradientRevision = "pressureApi" THEN "ACV" ELSE "KOAK"
InlandStation == IF gradientRevision = "pressureApi" THEN "SMF" ELSE "KSJC"

NowPressure(s) == SamplePressure(NowSamples(s), NowTarget)

CurrentGradientsReturned ==
    /\ GradientsReturned
    /\ \A s \in GradientStationsOf(gradientRevision) : NowSamples(s) # {}

\* C13: the current gradients returned are offshore = (upwind coastal station) -
\* (bay station) and onshore = (bay station) - (inland station), in tenths of a
\* millibar, for every triple of station pressures.
C13_GradientSigns ==
    CurrentGradientsReturned =>
        /\ OffshoreNow = NowPressure(UpwindCoastalStation) - NowPressure(BayStation)
        /\ OnshoreNow = NowPressure(BayStation) - NowPressure(InlandStation)

(***************************************************************************)
(* Properties of single evaluations (SpecCalls)                            *)
(***************************************************************************)
Returned(fn) == call.fn = fn /\ returned # pending

\* the key of the row the timing rule names for si (tenths): 9 below 9, 25 above
\* 25, si itself when it is an integer, else the largest key not above si
NearestLowerKey(si) ==
    IF si < 90 THEN 9 ELSE IF si > 250 THEN 25 ELSE si \div 10

\* C11: getSITiming(si) returns the row keyed 9 when si < 9, the row keyed 25 when
\* si > 25, the row whose key equals si for every integer si in 9..25, and for
\* every non-integer si strictly between 9 and 25 the row with the largest key
\* that is <= si.
C11_NearestLowerRow ==
    Returned("getSITiming") => returned.si = NearestLowerKey(call.si)

\* C15: for every month and every offshore gradient off > offMax - 0.5, the factor
\* the offshore-threshold stage multiplies the probability by lies in [0.05, 1.0]:
\* the stage never raises the probability, including for off between the
\* threshold and 0.
C15_OffFactorAtMostOne ==
    Returned("offFactor") => returned.num \in 50..FactorUnit

\* C16: for every afternoon dewpoint d < 45 F the dewpoint factor lies in
\* [0.05, 1.0]; it is 0.3 at 42 F and between 0.3 and 1.0 from 42 F to 45 F, never
\* above 0.3 below 42 F, and a lower dewpoint never has a larger factor than a
\* higher one.
C16_DewpointFactorMonotone ==
    Returned("dewpointFactor") =>
        /\ returned.num \in 50..FactorUnit
        /\ call.d = 420 => returned.num = 300
        /\ call.d >= 420 => returned.num >= 300
        /\ call.d < 420 => returned.num <= 300
        /\ \A lower \in DewpointValues :
               lower < call.d => dewpointFactor(lower) <= returned.num

\* the delay added by each 100 ft of height lost between 1200 ft and 1000 ft
DelayPer100ftAbove1000 == delayHours(1000) - delayHours(1100)

\* C21: for base inversions in [500, 1200) the onset delay is steeper below
\* 1000 ft than between 1000 and 1200 ft: each further 100 ft lost below 1000 ft
\* adds more delay than each 100 ft lost between 1200 and 1000 ft.
C21_DelaySteeperBelow1000 ==
    (Returned("delayHours") /\ call.bi <= 900) =>
        returned.num - delayHours(call.bi + 100) > DelayPer100ftAbove1000

\* the observations of the response that carry a pressure and lie within one hour
\* of the target time
PressureCandidates ==
    IF call.response.status # "ok" THEN {}
    ELSE {f \in {call.response.features[i] : i \in 1..Len(call.response.features)} :
             /\ f.barometricPressure # undefined
             /\ Abs(f.timestamp - call.targetTime) <= 60}

\* the candidate nearest the target time, the earlier one of two equally near
NearestEarliest ==
    CHOOSE f \in PressureCandidates :
        \A g \in PressureCandidates :
            \/ Abs(f.timestamp - call.targetTime) < Abs(g.timestamp - call.targetTime)
            \/ /\ Abs(f.timestamp - call.targetTime) = Abs(g.timestamp - call.targetTime)
               /\ f.timestamp <= g.timestamp

\* C25: fetchStationPressure(station, target) returns, among the observations
\* that carry a pressure and lie within 1 hour of target, the one with the
\* smallest absolute time difference, the earlier one of two equally distant
\* candidates whatever order the source lists them in, and no sample when there
\* is no candidate.
C25_NearestEarliestSample ==
    Returned("fetchStationPressure") =>
        IF PressureCandidates = {} THEN returned = null
        ELSE /\ returned # null
             /\ returned.timestamp = NearestEarliest.timestamp
             /\ returned.pressure = RoundDiv(NearestEarliest.barometricPressure.num, 10)

\* C26: the sample used as the 24-hours-ago pressure of a station lies within
\* two hours of now - 24 h, and it is absent when no 6-hourly observation lies
\* within that tolerance (never the closest observation at any distance).
C26_Past24WithinTolerance ==
    Returned("get24HourAgo6Hourly") =>
        \/ returned = null
        \/ Abs(returned.timestamp - (call.now - 24 * 60)) <= 2 * 60

\* the 6-hourly observations among those of the call
SixHourlyOf(observations) ==
    {o \in {observations[i] : i \in 1..Len(observations)} : is6HourlyPressureObs(o)}

\* C27: the observation chosen as the most recent 6-hourly report of a station
\* is the 6-hourly observation with the greatest timestamp, in whatever order
\* the list holds the observations.
C27_MostRecentByTimestamp ==
    Returned("getMostRecent6Hourly") =>
        IF SixHourlyOf(call.observations) = {} THEN returned = null
        ELSE /\ returned \in SixHourlyOf(call.observations)
             /\ \A o \in SixHourlyOf(call.observations) : o.timestamp <= returned.timestamp

(***************************************************************************)
(* Properties of the temperature refreshes (SpecRefresh)                   *)
(***************************************************************************)
AllReturned == \A i \in DOMAIN fetches : fetches[i].response # pending
Resolved(f) == f.response # pending /\ "thrown" \notin DOMAIN f.response

\* C12: when refreshes overlap, the result of the one started earlier never
\* replaces what the one started later has written: once all of them have
\* completed, the temperature data on display is the result of the refresh that
\* started last (when that refresh succeeded).
C12_LatestStartedWins ==
    (Len(fetches) >= 2 /\ AllReturned /\ Resolved(fetches[Len(fetches)]))
        => screen.temperatureData = fetches[Len(fetches)].response

\* a step in which a call of loadTemperatureData learns that its request failed
RefreshFails ==
    /\ component = "App"
    /\ \E i \in DOMAIN fetches :
          /\ fetches[i].response = pending
          /\ "thrown" \in DOMAIN fetches'[i].response

\* C29: when a temperature refresh fails, loadTemperatureData leaves maxTemp,
\* maxDewpoint and the stored temperatureData unchanged, records the error
\* message and returns the loading flag to false.
C29_FailedRefreshKeepsData ==
    [][RefreshFails =>
          /\ maxTemp' = maxTemp
          /\ maxDewpoint' = maxDewpoint
          /\ screen'.temperatureData = screen.temperatureData
          /\ screen'.error = Num("NWS API error")
          /\ ~screen'.loading]_vars

\* a refresh has failed after an earlier one had stored its data and filled in
\* the two inputs
C29_Witness ==
    /\ component = "App"
    /\ Len(fetches) >= 2
    /\ Resolved(fetches[1])
    /\ fetches[1].response.maxTemp # null
    /\ "thrown" \in DOMAIN fetches[Len(fetches)].response
    /\ screen.temperatureData = fetches[1].response
    /\ maxTemp = fetches[1].response.maxTemp.num * 10
    /\ screen.error = Num("NWS API error")
    /\ ~screen.loading

\* C30: in the auto-refreshing tool the loading flag is true in every state in
\* which some call of fetchData is still in flight, overlapping timer and manual
\* refreshes included.
C30_LoadingWhileInFlight ==
    (component = "SFOStratusTool" /\ ~AllReturned) => screen.loading

====
